---- MODULE Spec2Model ----
(***************************************************************************)
(* Model of the doomless content pipeline: the AIService (model            *)
(* provisioning, fact extraction, quiz generation, progress events) and    *)
(* the TextProcessor (topic orchestration with its in-flight guard).       *)
(*                                                                         *)
(* The repository holds two variants of the AIService class:               *)
(*   "A"  src/doomless/src/services/AIService.ts                           *)
(*        (candidate models, line-based extraction, quiz generation)       *)
(*   "B"  src/doomless/src/services/TextProcessor.ts, lines 214-798        *)
(*        (sentence fallback, JSON extraction, dedup set, fact cap)        *)
(* The variable `variant` says which of the two a behaviour runs.          *)
(*                                                                         *)
(* Strings are sequences of one-character strings.  JSON.parse is a        *)
(* library call: a model response is given by what JSON.parse makes of it  *)
(* (a JS value, or a syntax error), and the code is modelled from there.   *)
(***************************************************************************)
EXTENDS Integers, Sequences, FiniteSets, TLC

(***************************************************************************)
(* Program constants                                                       *)
(***************************************************************************)
MaxContentLen == 200
ChunkSize == 6000
MAX_FACTS == 120
FALLBACK_MAX_FACTS == 60
QuizInterval == 8
QuizCap == 5
QuizPromptFacts == 8
QuizOptions == 4

(***************************************************************************)
(* Strings                                                                 *)
(***************************************************************************)
Min(a, b) == IF a <= b THEN a ELSE b
Max(a, b) == IF a >= b THEN a ELSE b

\* n copies of the string s
Rep(s, n) == [i \in 1..(n * Len(s)) |-> s[((i - 1) % Len(s)) + 1]]

\* the characters \s matches
IsSpace(ch) == ch \in {" ", "\n", "\t"}

\* the elements vals[i], lo <= i <= hi, whose keep[i] is TRUE, in order
RECURSIVE PickRange(_, _, _, _)
PickRange(keep, vals, lo, hi) ==
  IF lo > hi THEN <<>>
  ELSE IF lo = hi THEN (IF keep[lo] THEN <<vals[lo]>> ELSE <<>>)
  ELSE LET mid == (lo + hi) \div 2
       IN  PickRange(keep, vals, lo, mid) \o PickRange(keep, vals, mid + 1, hi)

PickIdx(lo, hi, keep(_), f(_)) ==
  PickRange([i \in lo..hi |-> keep(i)], [i \in lo..hi |-> f(i)], lo, hi)

\* String.prototype.trim
Trim(s) ==
  IF \A i \in 1..Len(s) : IsSpace(s[i]) THEN <<>>
  ELSE LET lo == CHOOSE i \in 1..Len(s) :
                   ~IsSpace(s[i]) /\ \A j \in 1..(i - 1) : IsSpace(s[j])
           hi == CHOOSE i \in 1..Len(s) :
                   ~IsSpace(s[i]) /\ \A j \in (i + 1)..Len(s) : IsSpace(s[j])
       IN  SubSeq(s, lo, hi)

LowerChar(ch) ==
  CASE ch = "A" -> "a"
    [] ch = "B" -> "b"
    [] ch = "Q" -> "q"
    [] OTHER -> ch

\* String.prototype.toLowerCase
ToLowerCase(s) == [i \in 1..Len(s) |-> LowerChar(s[i])]

\* String.prototype.slice(from, to), 0 <= from <= to
Slice(s, from, to) == SubSeq(s, from + 1, Min(to, Len(s)))

\* s.replace(/\s+/g, ' ')
CollapseSpaces(s) ==
  LET keep(i) == ~IsSpace(s[i]) \/ i = 1 \/ ~IsSpace(s[i - 1])
      out(i) == IF IsSpace(s[i]) THEN " " ELSE s[i]
  IN  PickIdx(1, Len(s), keep, out)

\* the pieces of s between the positions listed in cuts (ascending); the
\* character at a cut position belongs to no piece
PiecesAt(s, cuts) ==
  [k \in 1..(Len(cuts) + 1) |->
     SubSeq(s, IF k = 1 THEN 1 ELSE cuts[k - 1] + 1,
               IF k <= Len(cuts) THEN cuts[k] - 1 ELSE Len(s))]

\* s.split('\n')
SplitLines(s) ==
  LET isCut(i) == s[i] = "\n"
      id(i) == i
  IN  PiecesAt(s, PickIdx(1, Len(s), isCut, id))

\* the elements of seq that satisfy keep, in order (Array.prototype.filter)
Filter(seq, keep(_)) ==
  LET k(i) == keep(seq[i])
      f(i) == seq[i]
  IN  PickIdx(1, Len(seq), k, f)

\* Array.prototype.map
Map(seq, f(_)) == [i \in 1..Len(seq) |-> f(seq[i])]

(***************************************************************************)
(* JS values, as JSON.parse returns them                                   *)
(***************************************************************************)
JUndef == [t |-> "undefined"]
JNull == [t |-> "null"]
JStr(s) == [t |-> "string", s |-> s]
\* a finite number is kept in tenths, n10 / 10, so that fractions exist
JNum(n10) == [t |-> "number", fin |-> TRUE, n10 |-> n10]
\* 1e999 parses to Infinity
JInf == [t |-> "number", fin |-> FALSE, n10 |-> 0]
JArr(a) == [t |-> "array", a |-> a]
JObj(f) == [t |-> "object", f |-> f]

\* typeof v === 'object' && v !== null
IsObject(v) == v.t \in {"object", "array"}
\* v[name]
Field(v, name) ==
  IF v.t = "object" /\ name \in DOMAIN v.f THEN v.f[name] ELSE JUndef
IsString(v) == v.t = "string"

(***************************************************************************)
(* Fact extraction, variant B                                              *)
(***************************************************************************)
MkFact(content, source) == [content |-> content, source |-> source]

\* s.split(/(?<=[.!?])\s+/) on a string whose whitespace runs are single
\* spaces: the cuts are the spaces that follow a sentence terminator
SplitAfterTerminators(s) ==
  LET isCut(i) == i > 1 /\ IsSpace(s[i]) /\ s[i - 1] \in {".", "!", "?"}
      id(i) == i
  IN  PiecesAt(s, PickIdx(1, Len(s), isCut, id))

SplitTextIntoSentences(text) ==
  LET cleaned == Trim(CollapseSpaces(text))
      nonEmpty(x) == Len(x) > 0
  IN  IF cleaned = <<>> THEN <<>>
      ELSE Filter(Map(SplitAfterTerminators(cleaned), Trim), nonEmpty)

\* the first response of a chunk gave nothing when this is the empty list
ParseFactsJson(raw) ==
  IF raw.kind # "json" THEN <<>>
  ELSE IF raw.v.t # "array" THEN <<>>
  ELSE LET contentOf(item) ==
             IF IsString(Field(item, "content")) THEN Field(item, "content").s
             ELSE IF IsString(Field(item, "fact")) THEN Field(item, "fact").s
             ELSE <<>>
           ok(item) == IsObject(item) /\ Len(Trim(contentOf(item))) > 0
           mk(item) == Trim(contentOf(item))
       IN  Map(Filter(raw.v.a, ok), mk)

\* the loop body of collectFactsFromContents without the truncation to 200
\* characters
CollectStep_NoTruncate(acc, rawContent, source, maxFacts) ==
  IF Len(acc.allFacts) >= maxFacts THEN acc
  ELSE LET content == Trim(rawContent)
           normalized == ToLowerCase(content)
       IN  IF content = <<>> \/ normalized \in acc.seen THEN acc
           ELSE [allFacts |-> Append(acc.allFacts, MkFact(content, source)),
                 seen |-> acc.seen \cup {normalized},
                 accepted |-> acc.accepted + 1]

\* the loop body of collectFactsFromContents without the check of the cap
CollectStep_NoCap(acc, rawContent, source, maxFacts) ==
  LET content == Trim(rawContent)
      truncated == Slice(content, 0, MaxContentLen)
      normalized == ToLowerCase(truncated)
  IN  IF content = <<>> \/ normalized \in acc.seen THEN acc
      ELSE [allFacts |-> Append(acc.allFacts, MkFact(truncated, source)),
            seen |-> acc.seen \cup {normalized},
            accepted |-> acc.accepted + 1]

\* one iteration of the loop of collectFactsFromContents on rawContent;
\* acc = [allFacts, seen, accepted]. After the break no later iteration runs,
\* which leaves acc as it is.
CollectStep(acc, rawContent, source, maxFacts) ==
  IF Len(acc.allFacts) >= maxFacts THEN acc
  ELSE LET content == Trim(rawContent)
           truncated == Slice(content, 0, MaxContentLen)
           normalized == ToLowerCase(truncated)
       IN  IF content = <<>> \/ normalized \in acc.seen THEN acc
           ELSE [allFacts |-> Append(acc.allFacts, MkFact(truncated, source)),
                 seen |-> acc.seen \cup {normalized},
                 accepted |-> acc.accepted + 1]

\* the loop of collectFactsFromContents without the break at the cap
RECURSIVE CollectRange_NoCap(_, _, _, _, _, _)
CollectRange_NoCap(contents, lo, hi, source, acc, maxFacts) ==
  IF lo > hi THEN acc
  ELSE IF lo = hi THEN CollectStep_NoCap(acc, contents[lo], source, maxFacts)
  ELSE LET mid == (lo + hi) \div 2
           first == CollectRange_NoCap(contents, lo, mid, source, acc, maxFacts)
       IN  IF first.accepted < acc.accepted THEN first
           ELSE CollectRange_NoCap(contents, mid + 1, hi, source, first, maxFacts)

\* the iterations on contents[lo..hi], in order, starting from acc; the loop
\* breaks once allFacts holds maxFacts facts
RECURSIVE CollectRange(_, _, _, _, _, _)
CollectRange(contents, lo, hi, source, acc, maxFacts) ==
  IF lo > hi THEN acc
  ELSE IF lo = hi THEN CollectStep(acc, contents[lo], source, maxFacts)
  ELSE LET mid == (lo + hi) \div 2
           first == CollectRange(contents, lo, mid, source, acc, maxFacts)
       IN  IF Len(first.allFacts) >= maxFacts THEN first
           ELSE CollectRange(contents, mid + 1, hi, source, first, maxFacts)

CollectFactsFromContents(contents, source, allFacts, seen, maxFacts) ==
  CollectRange(contents, 1, Len(contents), source,
               [allFacts |-> allFacts, seen |-> seen, accepted |-> 0], maxFacts)

\* fallbackParseTextToFacts without slice(0, MAX_FACTS)
FallbackParseTextToFacts_NoCap(text) ==
  LET sentences == SplitTextIntoSentences(text)
      mk(sentence) == MkFact(Slice(sentence, 0, MaxContentLen), "fallback")
  IN  Map(sentences, mk)

FallbackParseTextToFacts(text) ==
  LET sentences == SplitTextIntoSentences(text)
      mk(sentence) == MkFact(Slice(sentence, 0, MaxContentLen), "fallback")
  IN  Map(Slice(sentences, 0, FALLBACK_MAX_FACTS), mk)

(***************************************************************************)
(* Fact extraction, variant A                                              *)
(***************************************************************************)
\* the lines of a response that become facts
FactLines(response) ==
  LET ok(line) == Len(line) > 0 /\ Len(line) <= MaxContentLen
  IN  Filter(Map(SplitLines(response), Trim), ok)

\* the facts pushed for one chunk's response
ChunkFactsA(response) ==
  LET ok(content) == Len(content) > 0
      mk(content) == MkFact(Slice(content, 0, MaxContentLen), "default")
  IN  Map(Filter(FactLines(response), ok), mk)

\* the chunks of a trimmed text: slices of chunkSize characters
Chunks(normalizedText, chunkSize) ==
  [k \in 1..((Len(normalizedText) + chunkSize - 1) \div chunkSize) |->
     Slice(normalizedText, (k - 1) * chunkSize, k * chunkSize)]

ChunkSizeA(normalizedText) ==
  IF Len(normalizedText) <= ChunkSize THEN Len(normalizedText) ELSE ChunkSize

(***************************************************************************)
(* Quiz generation                                                         *)
(***************************************************************************)
\* Math.floor of a finite number kept in tenths
Floor10(n10) == n10 \div 10

\* parseQuizBatch's mapping with the answer floored but not clamped
NormalizeQuizItem_NoClamp(item) ==
  LET q == Field(item, "question")
      o == Field(item, "options")
      c == Field(item, "correct_answer")
      okOption(option) == IsString(option) /\ Len(Trim(option.s)) > 0
      trimOption(option) == Trim(option.s)
  IN  [question |-> IF IsString(q) THEN Trim(q.s) ELSE <<>>,
       options |-> IF o.t = "array" THEN Map(Filter(o.a, okOption), trimOption)
                   ELSE <<>>,
       correct_answer |-> IF c.t = "number" /\ c.fin THEN Floor10(c.n10) ELSE 0]

\* the object parseQuizBatch maps one parsed item to
NormalizeQuizItem(item) ==
  LET q == Field(item, "question")
      o == Field(item, "options")
      c == Field(item, "correct_answer")
      question == IF IsString(q) THEN Trim(q.s) ELSE <<>>
      okOption(option) == IsString(option) /\ Len(Trim(option.s)) > 0
      trimOption(option) == Trim(option.s)
      options == IF o.t = "array" THEN Map(Filter(o.a, okOption), trimOption)
                 ELSE <<>>
      numericAnswer == IF c.t = "number" THEN c ELSE JNum(0)
      normalizedAnswer ==
        IF numericAnswer.fin
        THEN Max(0, Min(Len(options) - 1, Floor10(numericAnswer.n10)))
        ELSE 0
  IN  [question |-> question, options |-> options,
       correct_answer |-> normalizedAnswer]

\* the questions one successfully parsed candidate yields
QuestionsOf(parsed) ==
  LET valid(item) == Len(item.question) > 0 /\ Len(item.options) = QuizOptions
  IN  Filter(Map(Filter(parsed.a, IsObject), NormalizeQuizItem), valid)

\* the candidates are tried in order; raw.cands[i] is what JSON.parse makes
\* of the i-th candidate string
RECURSIVE ParseQuizCandidates(_, _, _)
ParseQuizCandidates(cands, i, expected) ==
  IF i > Len(cands) THEN <<>>
  ELSE IF cands[i].kind # "json" \/ cands[i].v.t # "array"
       THEN ParseQuizCandidates(cands, i + 1, expected)
  ELSE LET questions == QuestionsOf(cands[i].v)
       IN  IF Len(questions) > 0
           THEN Slice(questions, 0,
                      IF expected > 0 THEN expected ELSE Len(questions))
           ELSE ParseQuizCandidates(cands, i + 1, expected)

\* parseQuizBatch returning every valid question, not the first `expected`
ParseQuizBatch_NoSlice(raw, expected) ==
  IF raw.kind = "noarray" THEN <<>>
  ELSE ParseQuizCandidates(raw.cands, 1, 0)

ParseQuizBatch(raw, expected) ==
  IF raw.kind = "noarray" THEN <<>>
  ELSE ParseQuizCandidates(raw.cands, 1, expected)

\* Math.min(5, Math.floor(totalFacts / quizInterval) || (totalFacts >= 4 ? 1 : 0))
MaxQuizzes(totalFacts) ==
  LET perInterval == totalFacts \div QuizInterval
  IN  Min(QuizCap, IF perInterval # 0 THEN perInterval
                   ELSE IF totalFacts >= 4 THEN 1 ELSE 0)

\* the stride taken to be the quiz interval
QuizStep_Interval(totalFacts) == QuizInterval

QuizStep(totalFacts) ==
  Max(1, totalFacts \div MaxQuizzes(totalFacts))

\* the 0-based indices the selection loop of addQuizFacts pushes
RECURSIVE SelectFrom(_, _, _)
SelectFrom(index, totalFacts, selected) ==
  IF index < totalFacts /\ Len(selected) < MaxQuizzes(totalFacts)
  THEN SelectFrom(index + QuizStep(totalFacts), totalFacts,
                  Append(selected, index))
  ELSE selected

SelectedIndices(totalFacts) ==
  IF totalFacts = 0 \/ MaxQuizzes(totalFacts) <= 0 THEN <<>>
  ELSE SelectFrom(0, totalFacts, <<>>)

\* the facts of the prompt: factContents.slice(0, 8)
LimitedFacts(factContents) == Slice(factContents, 0, QuizPromptFacts)

(***************************************************************************)
(* State                                                                   *)
(***************************************************************************)
MaxProcs == 3
MaxTopicCalls == 2

Procs == 1..MaxProcs
TopicProcs == 1..MaxTopicCalls
Topics == {"animals", "history"}

VARIABLES
  variant,          \* which AIService class runs: "A" or "B"
  cactus,           \* CactusLMClass is not null (the native module loaded)
  config,           \* getModelConfig(): [modelId, fallbackModelId], 0 is unset
  lm,               \* this.lm: 0 is null, otherwise the candidate it came from
  initialized,      \* this.initialized
  initializing,     \* this.initializing
  fallbackEnabled,  \* this.fallbackEnabled (variant B)
  processingCache,  \* TextProcessor.processingCache, keyed by topic
  db,               \* the facts table, per topic, in insertion order
  assets,           \* the bundled topic files: topic -> text id, 0 is no file
  pc,               \* where each asynchronous call stands
  loc,              \* the locals of each asynchronous call
  progressListeners,  \* this.progressListeners: a Set, in insertion order
  subscriptions,    \* history: the subscribeProgress calls made so far
  delivered,        \* history: the events each listener was called with
  emitted,          \* history: the number of emitProgress calls
  emitThrew,        \* history: an emitProgress call threw
  downloadProgress, \* this.downloadProgress / this.lastDownloadPercent
  progressLog,      \* useAIService: the progressLog state of the hook
  logged,           \* history: the log entry of every event the hook was given
  hasSeeded,        \* DefaultContentSeeder.hasSeeded
  pending,          \* DefaultContentSeeder.pending: 0 is null, otherwise the
                    \* seeding run whose promise it holds
  seedRuns,         \* the seeding bodies started so far and where each stands
  storedVersion     \* AsyncStorage: the value stored under flagKey

aiVars == <<variant, cactus, config, lm, initialized, initializing, fallbackEnabled>>
tpVars == <<processingCache, db, assets>>
busVars == <<progressListeners, subscriptions, delivered, emitted, emitThrew,
             downloadProgress>>
hookVars == <<progressLog, logged>>
seedVars == <<hasSeeded, pending, seedRuns, storedVersion>>
vars == <<variant, cactus, config, lm, initialized, initializing, fallbackEnabled,
          processingCache, db, assets, pc, loc,
          progressListeners, subscriptions, delivered, emitted, emitThrew,
          downloadProgress, progressLog, logged,
          hasSeeded, pending, seedRuns, storedVersion>>

\* the listener functions of the callers, the subscribeProgress calls and the
\* emitProgress calls considered
MaxListeners == 2
MaxSubscriptions == 2
MaxEmits == 2

Listeners == 1..MaxListeners
\* the listener handed to setProgressListener
SetListener == MaxListeners + 1
AllListeners == 1..SetListener
\* the listeners that throw on every call
ThrowingListeners == {1}
Handles == 1..MaxSubscriptions
NoSubscription == [listener |-> 0, open |-> FALSE, from |-> 0, to |-> 0]

ModelIds == {1, 2}
\* a rounded percentage: a number, NaN, or not yet set
NoPercent == [kind |-> "unset", v |-> 0]

NoLoc ==
  [op |-> "none", topic |-> "none", ret |-> "none", cand |-> 0,
   initOk |-> FALSE, initResult |-> "none", joined |-> 0, provisioned |-> 0,
   textId |-> 0, idx |-> 0, total |-> 0, allFacts |-> <<>>, seen |-> {},
   raw |-> [kind |-> "empty"], mode |-> "none", parseOk |-> FALSE,
   facts |-> <<>>, saved |-> 0, quizzes |-> <<>>, qidx |-> 0, inserted |-> 0,
   expected |-> 0,
   events |-> <<>>, requests |-> 0, parses |-> 0, inserts |-> 0,
   priorDone |-> FALSE, priorFacts |-> 0, addedGuard |-> FALSE,
   outcome |-> "none", result |-> <<>>,
   failures |-> 0, keptAtFailure |-> <<>>, quizAsked |-> FALSE,
   insertFailed |-> "none", firstValid |-> 0, firstBlank |-> FALSE,
   recoveredValid |-> 0, callbacks |-> 0, quizStage |-> FALSE, selected |-> <<>>,
   hadSession |-> FALSE, capability |-> "none", payload |-> "none",
   returned |-> "none", keepsHistory |-> FALSE, responses |-> <<>>,
   input |-> <<>>, stripped |-> <<>>, restripped |-> <<>>, priorFailed |-> FALSE]

\* emitProgress, recorded per emitting call
Emit(l, event) == [l EXCEPT !.events = Append(@, event)]

\* a step of call p that touches neither the listeners nor the download state
SetPc(p, state, l) ==
  /\ pc' = [pc EXCEPT ![p] = state]
  /\ loc' = [loc EXCEPT ![p] = l]
  /\ UNCHANGED <<busVars, hookVars, seedVars>>

(***************************************************************************)
(* AIService.initialize                                                    *)
(***************************************************************************)
\* getCandidateModels: a Set of the configured ids, in insertion order
\* getCandidateModels adding the fallback id first
GetCandidateModels_FallbackFirst(cfg) ==
  IF cfg.fallbackModelId = 0
  THEN (IF cfg.modelId = 0 THEN <<>> ELSE <<cfg.modelId>>)
  ELSE IF cfg.modelId = 0 \/ cfg.fallbackModelId = cfg.modelId
       THEN <<cfg.fallbackModelId>>
       ELSE <<cfg.fallbackModelId, cfg.modelId>>

GetCandidateModels(cfg) ==
  IF cfg.modelId = 0
  THEN (IF cfg.fallbackModelId = 0 THEN <<>> ELSE <<cfg.fallbackModelId>>)
  ELSE IF cfg.fallbackModelId = 0 \/ cfg.fallbackModelId = cfg.modelId
       THEN <<cfg.modelId>>
       ELSE <<cfg.modelId, cfg.fallbackModelId>>

\* the candidates initialize() walks: variant B has the one configured model
Candidates == IF variant = "A" THEN GetCandidateModels(config) ELSE <<1>>

\* the processes that are executing model provisioning
Provisioning == {p \in Procs : pc[p] \in {"prep", "lminit"}}

\* initialize() without its look at this.initializing
InitInFlight_Never == FALSE

\* initialize(): is another call already initializing?
InitInFlight == initializing

\* the caller of initialize() learns its outcome
SettleInit(l, ok) ==
  LET l2 == [l EXCEPT !.initResult = IF ok THEN "resolved" ELSE "rejected"]
  IN  IF l.op = "init"
      THEN <<"done", [l2 EXCEPT !.outcome = IF ok THEN "resolved" ELSE "rejected"]>>
      ELSE <<"ensured", [l2 EXCEPT !.initOk = ok]>>

\* the synchronous part of initialize(), up to its first await
EnterInitialize(p, l) ==
  IF initialized
  THEN /\ SetPc(p, SettleInit(l, TRUE)[1], SettleInit(l, TRUE)[2])
       /\ UNCHANGED <<lm, initialized, initializing, fallbackEnabled>>
  ELSE IF InitInFlight
  THEN /\ SetPc(p, "poll",
                [l EXCEPT !.joined = IF Provisioning = {} THEN 0
                                     ELSE CHOOSE q \in Provisioning : TRUE])
       /\ UNCHANGED <<lm, initialized, initializing, fallbackEnabled>>
  ELSE IF ~cactus
  THEN /\ initialized' = TRUE
       /\ initializing' = FALSE
       /\ fallbackEnabled' = IF variant = "B" THEN TRUE ELSE fallbackEnabled
       /\ SetPc(p, SettleInit(l, TRUE)[1], SettleInit(l, TRUE)[2])
       /\ UNCHANGED lm
  ELSE IF Candidates = <<>>
  THEN /\ initializing' = FALSE
       /\ initialized' = FALSE
       /\ SetPc(p, SettleInit(l, FALSE)[1], SettleInit(l, FALSE)[2])
       /\ UNCHANGED <<lm, fallbackEnabled>>
  ELSE /\ initializing' = TRUE
       /\ SetPc(p, "prep", [l EXCEPT !.cand = 1, !.provisioned = @ + 1])
       /\ UNCHANGED <<lm, initialized, fallbackEnabled>>

\* a failed candidate handled without the reset that follows the last one
CandidateFailed_NoReset(p) ==
  LET l == loc[p]
  IN  IF l.cand < Len(Candidates)
      THEN /\ SetPc(p, "prep", [l EXCEPT !.cand = @ + 1])
           /\ UNCHANGED <<lm, initialized, initializing, fallbackEnabled>>
      ELSE /\ SetPc(p, SettleInit(l, FALSE)[1], SettleInit(l, FALSE)[2])
           /\ UNCHANGED <<lm, initialized, initializing, fallbackEnabled>>

\* a candidate failed (preparation or init threw)
CandidateFailed(p) ==
  LET l == loc[p]
  IN  IF variant = "A"
      THEN IF l.cand < Len(Candidates)
           THEN /\ SetPc(p, "prep", [l EXCEPT !.cand = @ + 1])
                /\ UNCHANGED <<lm, initialized, initializing, fallbackEnabled>>
           ELSE /\ initializing' = FALSE
                /\ initialized' = FALSE
                /\ SetPc(p, SettleInit(l, FALSE)[1], SettleInit(l, FALSE)[2])
                /\ UNCHANGED <<lm, fallbackEnabled>>
      ELSE /\ lm' = 0
           /\ fallbackEnabled' = TRUE
           /\ initialized' = TRUE
           /\ initializing' = FALSE
           /\ SetPc(p, SettleInit(l, TRUE)[1], SettleInit(l, TRUE)[2])

\* initialize() called directly
CallInitialize(p) ==
  /\ pc[p] = "idle"
  /\ EnterInitialize(p, [loc[p] EXCEPT !.op = "init"])
  /\ UNCHANGED <<variant, cactus, config, tpVars>>

\* prepareModelInstance resolved: the model is cached, seeded or downloaded
PrepareDone(p) ==
  /\ pc[p] = "prep"
  /\ SetPc(p, "lminit", loc[p])
  /\ UNCHANGED <<aiVars, tpVars>>

\* prepareModelInstance threw
PrepareFail(p) ==
  /\ pc[p] = "prep"
  /\ CandidateFailed(p)
  /\ UNCHANGED <<variant, cactus, config, tpVars>>

\* lmInstance.init() resolved: the session becomes current
LmInitDone(p) ==
  /\ pc[p] = "lminit"
  /\ lm' = Candidates[loc[p].cand]
  /\ initialized' = TRUE
  /\ initializing' = FALSE
  /\ fallbackEnabled' = IF variant = "B" THEN FALSE ELSE fallbackEnabled
  /\ SetPc(p, SettleInit(loc[p], TRUE)[1], SettleInit(loc[p], TRUE)[2])
  /\ UNCHANGED <<variant, cactus, config, tpVars>>

\* lmInstance.init() threw
LmInitFail(p) ==
  /\ pc[p] = "lminit"
  /\ CandidateFailed(p)
  /\ UNCHANGED <<variant, cactus, config, tpVars>>

\* the 100 ms interval of a waiting call fires and finds initialized set
PollTick(p) ==
  /\ pc[p] = "poll"
  /\ initialized
  /\ SetPc(p, SettleInit(loc[p], TRUE)[1], SettleInit(loc[p], TRUE)[2])
  /\ UNCHANGED <<aiVars, tpVars>>

\* destroy()
CallDestroy(p) ==
  /\ pc[p] = "idle"
  /\ IF lm # 0
     THEN SetPc(p, "destroying", [loc[p] EXCEPT !.op = "destroy"])
     ELSE SetPc(p, "done", [loc[p] EXCEPT !.op = "destroy", !.outcome = "resolved"])
  /\ UNCHANGED <<aiVars, tpVars>>

\* this.lm.destroy() settled (a failure is caught and logged)
DestroyReturn(p) ==
  /\ pc[p] = "destroying"
  /\ lm' = 0
  /\ initialized' = FALSE
  /\ SetPc(p, "done", [loc[p] EXCEPT !.outcome = "resolved"])
  /\ UNCHANGED <<variant, cactus, config, initializing, fallbackEnabled, tpVars>>

Configs ==
  {[modelId |-> 1, fallbackModelId |-> f] : f \in {0, 1, 2}}

\* getModelConfig() of the repository
RepoConfig == [modelId |-> 1, fallbackModelId |-> 0]

\* no listener, no download seen yet
InitBus ==
  /\ progressListeners = <<>>
  /\ subscriptions = [h \in Handles |-> NoSubscription]
  /\ delivered = [listener \in AllListeners |-> <<>>]
  /\ emitted = 0
  /\ emitThrew = FALSE
  /\ downloadProgress = [modelId \in ModelIds |-> NoPercent]
  /\ progressLog = <<>>
  /\ logged = <<>>
  /\ hasSeeded = FALSE
  /\ pending = 0
  /\ seedRuns = <<>>
  /\ storedVersion = "none"

InitService ==
  /\ variant \in {"A", "B"}
  /\ cactus \in BOOLEAN
  /\ lm = 0
  /\ initialized = FALSE
  /\ initializing = FALSE
  /\ fallbackEnabled = FALSE
  /\ InitBus

InitRest ==
  /\ processingCache = {}
  /\ db = [t \in Topics |-> <<>>]
  /\ pc = [p \in Procs |-> "idle"]
  /\ loc = [p \in Procs |-> NoLoc]

InitInit ==
  /\ InitService
  /\ config \in Configs
  /\ assets = [t \in Topics |-> 0]
  /\ InitRest

NextInit ==
  \E p \in Procs :
    \/ CallInitialize(p)
    \/ PrepareDone(p)
    \/ PrepareFail(p)
    \/ LmInitDone(p)
    \/ LmInitFail(p)
    \/ PollTick(p)
    \/ CallDestroy(p)
    \/ DestroyReturn(p)

(***************************************************************************)
(* Input texts                                                             *)
(***************************************************************************)
MaxSentences == 130
LongLen == 250

\* the k-th of a family of distinct words over {a, b}
RECURSIVE Word(_)
Word(k) == IF k = 0 THEN <<>>
           ELSE Word(k \div 2) \o <<IF k % 2 = 0 THEN "a" ELSE "b">>

\* the sentences Word(from) .. Word(to), each ended by ". "
RECURSIVE Sentences(_, _)
Sentences(from, to) ==
  IF from > to THEN <<>>
  ELSE IF from = to THEN Word(from) \o <<".", " ">>
  ELSE Sentences(from, (from + to) \div 2) \o Sentences((from + to) \div 2 + 1, to)

TextOf(id) ==
  CASE id = 1 -> <<>>
    [] id = 2 -> <<" ", "\n", " ">>
    [] id = 3 -> <<" ", "A", "a", ".", " ", " ", "b", "!", " ", "a", "A", ".",
                   " ", "b", " ", " ", "a", "?", " ", "b", " ", "a", "?", "\n">>
    [] id = 4 -> Rep(<<"a", ".", " ">>, FALLBACK_MAX_FACTS + 1)
    [] id = 5 -> Rep(<<"a">>, LongLen) \o <<".", " ", "b", ".">>
    [] id = 6 -> Rep(<<"a">>, ChunkSize) \o Rep(<<"b">>, ChunkSize) \o <<"c", ".">>
    [] id = 7 -> Sentences(1, MaxSentences) \o Rep(<<"a">>, ChunkSize)
    [] id = 8 -> <<"a", ".", " ", "b", ".", " ", "A", "b", ".", " ", "b", "a", ".">>
    [] OTHER -> <<>>

(***************************************************************************)
(* AIService.parseTextToFacts                                              *)
(***************************************************************************)
Ev(type, l, fields) == [type |-> type, topic |-> l.topic] @@ fields

\* parseTextToFacts settles: its caller is processTopicFile or the user
ParseSettled(p, l, ok, facts) ==
  IF l.op = "parse"
  THEN SetPc(p, "done", [l EXCEPT !.outcome = IF ok THEN "resolved" ELSE "rejected",
                                  !.result = facts])
  ELSE SetPc(p, "parsed", [l EXCEPT !.parseOk = ok, !.facts = facts])

\* ensureInitialized(), called synchronously by parseTextToFacts and
\* generateQuizQuestions
EnsureInitialized(p, l) ==
  IF initialized
  THEN /\ SetPc(p, "ensured", [l EXCEPT !.initOk = TRUE])
       /\ UNCHANGED <<lm, initialized, initializing, fallbackEnabled>>
  ELSE EnterInitialize(p, l)

NormalizedText(l) == Trim(TextOf(l.textId))
ChunkSizeOf(l) == IF variant = "A" THEN ChunkSizeA(NormalizedText(l)) ELSE ChunkSize
ChunkOf(l, idx) ==
  Slice(NormalizedText(l), (idx - 1) * ChunkSizeOf(l), idx * ChunkSizeOf(l))

\* parse-complete left out
ParseComplete_Silent(l) == l

ParseComplete(l) ==
  Emit(l, Ev("parse-complete", l,
             [totalChunks |-> l.total, factsGenerated |-> Len(l.allFacts)]))

\* variant A: the loop from chunk idx on, up to the next await or the end;
\* runCompletion throws at once when this.lm is null, and the loop continues
RECURSIVE AdvanceA(_, _)
AdvanceA(l, idx) ==
  IF idx > l.total THEN <<"end", ParseComplete(l)>>
  ELSE LET l1 == Emit([l EXCEPT !.idx = idx],
                      Ev("parse-chunk-start", l,
                         [chunkIndex |-> idx, totalChunks |-> l.total]))
       IN  IF lm = 0 THEN AdvanceA(l1, idx + 1)
           ELSE <<"completion", [l1 EXCEPT !.requests = @ + 1]>>

\* variant B: the same, with the cap checked before a chunk is started
RECURSIVE AdvanceB(_, _)
AdvanceB(l, idx) ==
  IF idx > l.total \/ Len(l.allFacts) >= MAX_FACTS THEN <<"end", ParseComplete(l)>>
  ELSE LET l1 == Emit([l EXCEPT !.idx = idx],
                      Ev("parse-chunk-start", l,
                         [chunkIndex |-> idx, totalChunks |-> l.total]))
       IN  IF lm = 0 THEN AdvanceB(l1, idx + 1)
           ELSE <<"completion", [l1 EXCEPT !.requests = @ + 1]>>

Advance(l, idx) == IF variant = "A" THEN AdvanceA(l, idx) ELSE AdvanceB(l, idx)

Proceed(p, res) ==
  IF res[1] = "end"
  THEN ParseSettled(p, res[2], TRUE, res[2].allFacts)
  ELSE SetPc(p, res[1], res[2])

ChunkComplete(l, n) ==
  Emit(l, Ev("parse-chunk-complete", l,
             [chunkIndex |-> l.idx, totalChunks |-> l.total, factsGenerated |-> n]))

\* the end of the loop body reporting the items offered, not those accepted
FinishChunkB_ReportsOffered(l, parsedFacts) ==
  LET contents == IF Len(parsedFacts) > 0 THEN parsedFacts
                  ELSE SplitTextIntoSentences(ChunkOf(l, l.idx))
      source == IF Len(parsedFacts) > 0 THEN "cactus" ELSE "fallback"
      got == CollectFactsFromContents(contents, source, l.allFacts, l.seen, MAX_FACTS)
  IN  ChunkComplete([l EXCEPT !.allFacts = got.allFacts, !.seen = got.seen],
                    Len(contents))

\* the end of the loop body with one dedup set for all runs
FinishChunkB_SharedSeen(l, parsedFacts) ==
  LET contents == IF Len(parsedFacts) > 0 THEN parsedFacts
                  ELSE SplitTextIntoSentences(ChunkOf(l, l.idx))
      source == IF Len(parsedFacts) > 0 THEN "cactus" ELSE "fallback"
      shared == UNION {loc[q].seen : q \in Procs}
      got == CollectFactsFromContents(contents, source, l.allFacts, shared, MAX_FACTS)
  IN  ChunkComplete([l EXCEPT !.allFacts = got.allFacts, !.seen = got.seen],
                    got.accepted)

\* the end of the loop body without the sentence fallback
FinishChunkB_NoFallback(l, parsedFacts) ==
  LET got == CollectFactsFromContents(parsedFacts, "cactus", l.allFacts, l.seen,
                                      MAX_FACTS)
  IN  ChunkComplete([l EXCEPT !.allFacts = got.allFacts, !.seen = got.seen],
                    got.accepted)

\* variant B: the facts of a chunk are collected, model facts if any were
\* parsed, the chunk's sentences otherwise
FinishChunkB(l, parsedFacts) ==
  LET contents == IF Len(parsedFacts) > 0 THEN parsedFacts
                  ELSE SplitTextIntoSentences(ChunkOf(l, l.idx))
      source == IF Len(parsedFacts) > 0 THEN "cactus" ELSE "fallback"
      got == CollectFactsFromContents(contents, source, l.allFacts, l.seen, MAX_FACTS)
  IN  ChunkComplete([l EXCEPT !.allFacts = got.allFacts, !.seen = got.seen],
                    got.accepted)

\* parseTextToFacts after `await this.ensureInitialized()`
AfterEnsureParse(p) ==
  /\ pc[p] = "ensured"
  /\ loc[p].ret = "parse"
  /\ LET l == loc[p]
         text == NormalizedText(l)
     IN  IF ~l.initOk THEN ParseSettled(p, l, FALSE, <<>>)
         ELSE IF variant = "A" /\ lm = 0 THEN ParseSettled(p, l, FALSE, <<>>)
         ELSE IF Len(text) = 0 THEN ParseSettled(p, l, TRUE, <<>>)
         ELSE IF variant = "B" /\ (fallbackEnabled \/ lm = 0)
              THEN ParseSettled(p, [l EXCEPT !.mode = "fallback"], TRUE,
                                FallbackParseTextToFacts(text))
         ELSE LET n == Len(Chunks(text, ChunkSizeOf(l)))
                  l1 == Emit([l EXCEPT !.mode = "model", !.total = n],
                             Ev("parse-start", l, [totalChunks |-> n]))
              IN  Proceed(p, Advance(l1, 1))
  /\ UNCHANGED <<aiVars, tpVars>>

\* the catch around runCompletion: the error is logged (history: how many
\* requests of the run failed and the facts held at the last failure)
CompletionFailed(l) ==
  [l EXCEPT !.failures = @ + 1, !.keptAtFailure = l.allFacts]

\* the catch around runCompletion rethrowing instead of `continue`
OnCompletionError_Rethrow(p, l) ==
  ParseSettled(p, Emit(CompletionFailed(l),
                       Ev("parse-error", l, [message |-> "completion failed"])),
               FALSE, <<>>)

\* the catch around runCompletion: `continue` with the next chunk
OnCompletionError(p, l) == Proceed(p, Advance(CompletionFailed(l), l.idx + 1))

\* history: what parseFactsJson made of the chunk's first response
FirstResponse(l, raw) ==
  [l EXCEPT !.firstValid = Len(ParseFactsJson(raw)),
            !.firstBlank = (raw.kind = "empty")]

\* attemptJsonRecovery asking for a reformat of any response
AttemptsRecovery_Always(raw) == TRUE

\* attemptJsonRecovery: a reformat is requested unless the cleaned response
\* is empty or there is no session
AttemptsRecovery(raw) == raw.kind # "empty" /\ lm # 0

\* history, kept for the runs whose properties read it: the completions the
\* run has received, in order
GotResponse(l, r) ==
  IF l.keepsHistory THEN [l EXCEPT !.responses = Append(@, r)] ELSE l

\* this.lm.complete(...) settles for the chunk's extraction request
CompletionReturn(p, r) ==
  /\ pc[p] = "completion"
  /\ LET l == GotResponse(loc[p], r)
     IN  IF ~r.ok THEN OnCompletionError(p, l)
         ELSE IF variant = "A"
         THEN IF ~r.isString
              THEN ParseSettled(p, Emit(l, Ev("parse-error", l, [message |-> "TypeError"])),
                                FALSE, <<>>)
              ELSE Proceed(p, Advance(
                     ChunkComplete([l EXCEPT !.allFacts = @ \o ChunkFactsA(r.s)],
                                   Len(FactLines(r.s))),
                     l.idx + 1))
         ELSE LET l0 == FirstResponse(l, r.raw)
              IN  IF Len(ParseFactsJson(r.raw)) > 0
                  THEN Proceed(p, Advance(FinishChunkB(l0, ParseFactsJson(r.raw)),
                                          l.idx + 1))
                  ELSE IF AttemptsRecovery(r.raw)
                       THEN SetPc(p, "recovery",
                                  [l0 EXCEPT !.raw = r.raw, !.requests = @ + 1])
                       ELSE Proceed(p, Advance(FinishChunkB(l0, <<>>), l.idx + 1))
  /\ UNCHANGED <<aiVars, tpVars>>

\* variant B: the reformat request of attemptJsonRecovery settles
RecoveryReturn(p, r) ==
  /\ pc[p] = "recovery"
  /\ LET l == GotResponse(loc[p], r)
         recovered == IF r.ok THEN ParseFactsJson(r.raw) ELSE <<>>
         l0 == [l EXCEPT !.recoveredValid = Len(recovered)]
         l1 == IF r.ok THEN l0 ELSE CompletionFailed(l0)
     IN  Proceed(p, Advance(FinishChunkB(l1, recovered), l.idx + 1))
  /\ UNCHANGED <<aiVars, tpVars>>

\* parseTextToFacts(text, topic) called by the user (extractFacts)
CallParseTextToFacts(p, textId) ==
  /\ pc[p] = "idle"
  /\ EnsureInitialized(p, [loc[p] EXCEPT !.op = "parse", !.ret = "parse",
                                         !.topic = "animals",
                                         !.textId = textId, !.parses = @ + 1])
  /\ UNCHANGED <<variant, cactus, config, tpVars>>

(***************************************************************************)
(* Model responses                                                         *)
(***************************************************************************)
Failure == [ok |-> FALSE]
\* variant A: result.response as returned
TextResponse(s) == [ok |-> TRUE, isString |-> TRUE, s |-> s]
NoTextResponse == [ok |-> TRUE, isString |-> FALSE]
\* variant B: what is left of the response and what JSON.parse makes of it
Empty == [ok |-> TRUE, raw |-> [kind |-> "empty"]]
Garbage == [ok |-> TRUE, raw |-> [kind |-> "garbage"]]
Json(v) == [ok |-> TRUE, raw |-> [kind |-> "json", v |-> v]]

ContentItem(s) == JObj([content |-> JStr(s)])
Items(from, to) == [k \in 1..(to - from + 1) |-> ContentItem(Word(from + k - 1))]

MixedItems ==
  <<ContentItem(<<" ", "a", " ">>), ContentItem(<<"A">>), JNull,
    JObj([fact |-> JStr(<<"a", " ", " ", "b">>)]), ContentItem(<<"a", " ", "b">>),
    JObj([content |-> JNum(10)]), JStr(<<"x">>), ContentItem(<<" ">>),
    ContentItem(Rep(<<"b">>, LongLen))>>

ExtractResponsesB ==
  {Failure, Empty, Garbage, Json(JObj([content |-> JStr(<<"a">>)])),
   Json(JArr(MixedItems)), Json(JArr(Items(1, MaxSentences))),
   Json(JArr(Items(51, 120)))}

ExtractResponsesA ==
  {Failure, NoTextResponse,
   TextResponse(<<"a", "\n", "\n", " ", "b", " ", "\n", "A", "\n", "a">>
                \o <<"\n">> \o Rep(<<"b">>, MaxContentLen)
                \o <<"\n">> \o Rep(<<"a">>, MaxContentLen + 1))}


(***************************************************************************)
(* TextProcessor.processTopicFile                                          *)
(***************************************************************************)
\* `default_${topic}`
CacheKey(topic) == <<"default", topic>>

\* storageService.getFacts(topic, 1): at most one row of the topic
GetFacts(topic, limit) == Slice(db[topic], 0, limit)

\* processTopicFile without its look at the stored facts
AlreadyProcessed_Never(existingFacts) == FALSE

\* the topic was processed before: a fact of it exists
AlreadyProcessed(existingFacts) == Len(existingFacts) > 0

\* processTopicFile without the delete of its finally block
ReleaseGuard_Kept(cache, topic) == cache

\* this.processingCache.delete(cacheKey), in the finally block
ReleaseGuard(cache, topic) == cache \ {CacheKey(topic)}

\* processTopicFile settles; every exit after the guard was added runs the
\* finally block
TopicSettled(p, l, ok) ==
  /\ SetPc(p, "done", [l EXCEPT !.outcome = IF ok THEN "resolved" ELSE "rejected"])
  /\ processingCache' = ReleaseGuard(processingCache, l.topic)

FactInputOf(fact) ==
  [content |-> fact.content, source |-> "default", is_quiz |-> FALSE, quiz_data |-> <<>>]

QuizFactOf(quiz) ==
  [content |-> <<"Q", "u", "i", "z", ":", " ">> \o quiz.question,
   source |-> "default", is_quiz |-> TRUE, quiz_data |-> quiz]

\* the contents handed to generateQuizQuestions
SelectedContents(facts) ==
  [k \in 1..Len(SelectedIndices(Len(facts))) |->
     facts[SelectedIndices(Len(facts))[k] + 1].content]

\* quiz-complete left out
QuizComplete_Silent(l, total) == l

QuizComplete(l, total) == Emit(l, Ev("quiz-complete", l, [total |-> total]))

\* addQuizFacts up to its first await; it calls generateQuizQuestions, whose
\* first statement is ensureInitialized()
AddQuizFacts(p, l0) ==
  LET l == [l0 EXCEPT !.quizStage = TRUE, !.selected = SelectedIndices(Len(l0.facts))]
  IN  IF Len(SelectedIndices(Len(l.facts))) = 0
      THEN /\ SetPc(p, "quiz_return", l)
           /\ UNCHANGED <<lm, initialized, initializing, fallbackEnabled>>
      ELSE EnsureInitialized(p,
             Emit([l EXCEPT !.ret = "quiz",
                            !.expected = Len(SelectedIndices(Len(l.facts)))],
                  Ev("quiz-start", l, [total |-> Len(SelectedIndices(Len(l.facts)))])))

\* the insert loop of addQuizFacts moves to the quiz after qidx
NextQuiz(p, l) ==
  IF l.qidx < Len(l.quizzes)
  THEN SetPc(p, "quiz_saving", [l EXCEPT !.qidx = @ + 1])
  ELSE SetPc(p, "quiz_return", QuizComplete(l, l.inserted))

\* processTopicFile without its look at the in-flight set
HasGuard_Never(cache, topic) == FALSE

\* this.processingCache.has(cacheKey)
HasGuard(cache, topic) == CacheKey(topic) \in cache

CallProcessTopicFile(p, t) ==
  /\ pc[p] = "idle"
  /\ LET l == [loc[p] EXCEPT
                 !.op = "topic", !.topic = t,
                 !.priorDone = \E q \in Procs : /\ pc[q] = "done"
                                                /\ loc[q].op = "topic"
                                                /\ loc[q].topic = t
                                                /\ loc[q].outcome = "resolved",
                 !.priorFacts = Len(db[t]),
                 !.priorFailed = \E q \in Procs : /\ pc[q] = "done"
                                                  /\ loc[q].op = "topic"
                                                  /\ loc[q].topic = t
                                                  /\ loc[q].outcome = "rejected"
                                                  /\ loc[q].saved >= 1]
     IN  IF HasGuard(processingCache, t)
         THEN SetPc(p, "done", [l EXCEPT !.outcome = "resolved"])
         ELSE SetPc(p, "getFacts", l)
  /\ UNCHANGED <<aiVars, tpVars>>

\* storageService.getFacts(topic, 1) resolved
GetFactsReturn(p) ==
  /\ pc[p] = "getFacts"
  /\ IF AlreadyProcessed(GetFacts(loc[p].topic, 1))
     THEN /\ SetPc(p, "done", [loc[p] EXCEPT !.outcome = "resolved"])
          /\ UNCHANGED processingCache
     ELSE /\ processingCache' = processingCache \cup {CacheKey(loc[p].topic)}
          /\ SetPc(p, "load", [loc[p] EXCEPT !.addedGuard = TRUE])
  /\ UNCHANGED <<aiVars, db, assets>>

\* storageService.getFacts rejected: the call rejects before the guard is set
GetFactsFail(p) ==
  /\ pc[p] = "getFacts"
  /\ SetPc(p, "done", [loc[p] EXCEPT !.outcome = "rejected"])
  /\ UNCHANGED <<aiVars, tpVars>>

\* loadTopicFile resolved, with the text or null
LoadReturn(p) ==
  /\ pc[p] = "load"
  /\ LET l == loc[p]
         textId == assets[l.topic]
     IN  IF textId = 0 \/ Len(TextOf(textId)) = 0
         THEN /\ TopicSettled(p, l, TRUE)
              /\ UNCHANGED <<lm, initialized, initializing, fallbackEnabled>>
         ELSE /\ EnsureInitialized(p, [l EXCEPT !.ret = "parse", !.textId = textId,
                                                !.parses = @ + 1])
              /\ UNCHANGED processingCache
  /\ UNCHANGED <<variant, cactus, config, db, assets>>

\* `await aiService.parseTextToFacts(text, topic)` settled
ParseReturn(p) ==
  /\ pc[p] = "parsed"
  /\ loc[p].op = "topic"
  /\ LET l == Emit(loc[p], Ev("storage-save-progress", loc[p],
                              [saved |-> 0, total |-> Len(loc[p].facts)]))
     IN  IF ~loc[p].parseOk
         THEN /\ TopicSettled(p, loc[p], FALSE)
              /\ UNCHANGED <<lm, initialized, initializing, fallbackEnabled>>
         ELSE IF Len(l.facts) > 0
         THEN /\ SetPc(p, "saving", l)
              /\ UNCHANGED <<lm, initialized, initializing, fallbackEnabled,
                             processingCache>>
         ELSE /\ AddQuizFacts(p, l)
              /\ UNCHANGED processingCache
  /\ UNCHANGED <<variant, cactus, config, db, assets>>

\* storageService.insertFact(factInput) resolved for the next fact
InsertReturn(p) ==
  /\ pc[p] = "saving"
  /\ LET l0 == loc[p]
         l == Emit([l0 EXCEPT !.saved = @ + 1, !.inserts = @ + 1],
                   Ev("storage-save-progress", l0,
                      [saved |-> l0.saved + 1, total |-> Len(l0.facts)]))
     IN  /\ db' = [db EXCEPT ![l0.topic] = Append(@, FactInputOf(l0.facts[l0.saved + 1]))]
         /\ IF l.saved < Len(l.facts)
            THEN /\ SetPc(p, "saving", l)
                 /\ UNCHANGED <<lm, initialized, initializing, fallbackEnabled>>
            ELSE AddQuizFacts(p, l)
  /\ UNCHANGED <<variant, cactus, config, processingCache, assets>>

\* storageService.insertFact rejected: the run rejects
InsertFail(p) ==
  /\ pc[p] = "saving"
  /\ TopicSettled(p, [loc[p] EXCEPT !.insertFailed = "fact"], FALSE)
  /\ UNCHANGED <<aiVars, db, assets>>

\* generateQuizQuestions after `await this.ensureInitialized()`
AfterEnsureQuiz(p) ==
  /\ pc[p] = "ensured"
  /\ loc[p].ret = "quiz"
  /\ LET l == loc[p]
     IN  IF ~l.initOk
         THEN TopicSettled(p, l, FALSE)
         ELSE /\ IF lm = 0 \/ Len(SelectedContents(l.facts)) = 0
                 THEN SetPc(p, "quiz_return", QuizComplete(l, 0))
                 ELSE SetPc(p, "quiz_completion",
                            [l EXCEPT !.requests = @ + 1, !.quizAsked = TRUE])
              /\ UNCHANGED processingCache
  /\ UNCHANGED <<aiVars, db, assets>>

\* the quiz completion request settled
QuizCompletionReturn(p, r) ==
  /\ pc[p] = "quiz_completion"
  /\ LET l == loc[p]
         quizQuestions ==
           IF r.ok /\ r.isString
           THEN ParseQuizBatch(r.quiz, Len(LimitedFacts(SelectedContents(l.facts))))
           ELSE <<>>
     IN  NextQuiz(p, [l EXCEPT !.quizzes = quizQuestions, !.qidx = 0, !.inserted = 0])
  /\ UNCHANGED <<aiVars, tpVars>>

\* storageService.insertFact(quizFact) resolved
QuizInsertReturn(p) ==
  /\ pc[p] = "quiz_saving"
  /\ LET l0 == loc[p]
         l == Emit([l0 EXCEPT !.inserted = @ + 1],
                   Ev("quiz-progress", l0,
                      [current |-> l0.inserted + 1, total |-> l0.expected]))
     IN  /\ db' = [db EXCEPT ![l0.topic] = Append(@, QuizFactOf(l0.quizzes[l0.qidx]))]
         /\ NextQuiz(p, l)
  /\ UNCHANGED <<aiVars, processingCache, assets>>

\* storageService.insertFact(quizFact) rejected: logged, the loop goes on
QuizInsertFail(p) ==
  /\ pc[p] = "quiz_saving"
  /\ NextQuiz(p, [loc[p] EXCEPT !.insertFailed = "quiz"])
  /\ UNCHANGED <<aiVars, tpVars>>

\* `await this.addQuizFacts(topic, facts)` resolved
QuizReturn(p) ==
  /\ pc[p] = "quiz_return"
  /\ TopicSettled(p, Emit(loc[p], Ev("storage-complete", loc[p],
                                     [total |-> Len(loc[p].facts)])), TRUE)
  /\ UNCHANGED <<aiVars, db, assets>>

(***************************************************************************)
(* TextProcessor.processText                                               *)
(***************************************************************************)
UploadInputOf(fact) ==
  [content |-> fact.content, source |-> "user_upload", is_quiz |-> FALSE,
   quiz_data |-> <<>>]

\* processText(text, topic, 'user_upload'), as document ingestion calls it
CallProcessText(p, textId) ==
  /\ pc[p] = "idle"
  /\ EnsureInitialized(p, [loc[p] EXCEPT !.op = "text", !.ret = "parse",
                                         !.topic = "history",
                                         !.textId = textId, !.parses = @ + 1])
  /\ UNCHANGED <<variant, cactus, config, tpVars>>

\* `await aiService.parseTextToFacts(text, topic)` settled in processText
TextParseReturn(p) ==
  /\ pc[p] = "parsed"
  /\ loc[p].op = "text"
  /\ IF ~loc[p].parseOk
     THEN SetPc(p, "done", [loc[p] EXCEPT !.outcome = "rejected"])
     ELSE IF Len(loc[p].facts) = 0
     THEN SetPc(p, "done", [loc[p] EXCEPT !.outcome = "resolved"])
     ELSE SetPc(p, "text_saving", loc[p])
  /\ UNCHANGED <<aiVars, tpVars>>

\* storageService.insertFact resolved in processText
TextInsertReturn(p) ==
  /\ pc[p] = "text_saving"
  /\ LET l0 == loc[p]
         l == [l0 EXCEPT !.saved = @ + 1, !.inserts = @ + 1,
                         !.result = Append(@, l0.facts[l0.saved + 1])]
     IN  /\ db' = [db EXCEPT ![l0.topic] =
                     Append(@, UploadInputOf(l0.facts[l0.saved + 1]))]
         /\ IF l.saved < Len(l.facts)
            THEN SetPc(p, "text_saving", l)
            ELSE SetPc(p, "done", [l EXCEPT !.outcome = "resolved"])
  /\ UNCHANGED <<aiVars, processingCache, assets>>

\* storageService.insertFact rejected in processText
TextInsertFail(p) ==
  /\ pc[p] = "text_saving"
  /\ SetPc(p, "done", [loc[p] EXCEPT !.outcome = "rejected"])
  /\ UNCHANGED <<aiVars, tpVars>>

(***************************************************************************)
(* The orchestrator with its inputs                                        *)
(***************************************************************************)
QuizResponse(raw) == [ok |-> TRUE, isString |-> TRUE, quiz |-> raw]
QuizArray(cands) == [kind |-> "array", cands |-> cands]
Parsed(v) == [kind |-> "json", v |-> v]
Thrown == [kind |-> "throw"]

StrOptions(n) == JArr([k \in 1..n |-> JStr(Word(k))])
QuizItem(question, options, answer) ==
  JObj([question |-> question, options |-> options, correct_answer |-> answer])
GoodQuiz(answer10) == QuizItem(JStr(<<"Q", "?">>), StrOptions(QuizOptions), JNum(answer10))

TopicResponsesA ==
  {Failure, TextResponse(<<"a", "\n", "b", "\n", "A", "\n", "a", "b">>)}
TopicResponsesB == {Failure, Garbage, Json(JArr(Items(1, 4)))}
TopicResponses == IF variant = "A" THEN TopicResponsesA ELSE TopicResponsesB

TopicQuizResponses ==
  {Failure, QuizResponse(QuizArray(<<Parsed(JArr(<<GoodQuiz(10), GoodQuiz(25)>>))>>))}

\* the bundled topic files: present with sentences, empty, or missing
AssetSets == {[animals |-> 8, history |-> 0], [animals |-> 8, history |-> 1]}

Init ==
  /\ InitService
  /\ config = RepoConfig
  /\ assets \in AssetSets
  /\ InitRest

Next ==
  \E p \in TopicProcs :
    \/ \E t \in Topics : CallProcessTopicFile(p, t)
    \/ GetFactsReturn(p)
    \/ GetFactsFail(p)
    \/ LoadReturn(p)
    \/ PrepareDone(p)
    \/ PrepareFail(p)
    \/ LmInitDone(p)
    \/ LmInitFail(p)
    \/ PollTick(p)
    \/ AfterEnsureParse(p)
    \/ \E r \in TopicResponses : CompletionReturn(p, r)
    \/ \E r \in TopicResponses : RecoveryReturn(p, r)
    \/ ParseReturn(p)
    \/ InsertReturn(p)
    \/ InsertFail(p)
    \/ AfterEnsureQuiz(p)
    \/ \E r \in TopicQuizResponses : QuizCompletionReturn(p, r)
    \/ QuizInsertReturn(p)
    \/ QuizInsertFail(p)
    \/ QuizReturn(p)

Spec == Init /\ [][Next]_vars

(***************************************************************************)
(* Extraction alone, on large inputs                                       *)
(***************************************************************************)
ExtractResponses == IF variant = "A" THEN ExtractResponsesA ELSE ExtractResponsesB
ExtractTexts == 1..7

InitExtract ==
  /\ InitService
  /\ config = RepoConfig
  /\ assets = [t \in Topics |-> 0]
  /\ InitRest

NextExtract ==
  \/ \E textId \in ExtractTexts : CallParseTextToFacts(1, textId)
  \/ \E textId \in ExtractTexts : CallProcessText(1, textId)
  \/ TextParseReturn(1)
  \/ TextInsertReturn(1)
  \/ TextInsertFail(1)
  \/ PrepareDone(1)
  \/ PrepareFail(1)
  \/ LmInitDone(1)
  \/ LmInitFail(1)
  \/ AfterEnsureParse(1)
  \/ \E r \in ExtractResponses : CompletionReturn(1, r)
  \/ \E r \in ExtractResponses : RecoveryReturn(1, r)

SpecExtract == InitExtract /\ [][NextExtract]_vars

(***************************************************************************)
(* The quiz stage, from the moment extraction returned its facts           *)
(***************************************************************************)
MaxQuizFacts == 56

\* n extracted facts
SomeFacts(n) == [k \in 1..n |-> MkFact(Word(k), "default")]

BadOptions ==
  JArr(<<JStr(<<"a">>), JNum(10), JStr(<<" ">>), JStr(<<"b">>), JStr(<<"c">>)>>)
PaddedOptions ==
  JArr(<<JStr(<<" ", "a">>), JNum(10), JStr(<<"b", " ">>), JStr(<<" ">>),
         JStr(<<"c">>), JNull, JStr(<<"d">>)>>)

QuizItems ==
  <<GoodQuiz(27), GoodQuiz(-5), GoodQuiz(990), GoodQuiz(-990),
    QuizItem(JStr(<<"Q">>), StrOptions(QuizOptions), JInf),
    QuizItem(JStr(<<"Q">>), StrOptions(QuizOptions), JStr(<<"1">>)),
    JObj([question |-> JStr(<<" ", "Q", " ">>), options |-> PaddedOptions]),
    QuizItem(JStr(<<"Q">>), StrOptions(QuizOptions + 1), JNum(40)),
    QuizItem(JStr(<<"Q">>), StrOptions(QuizOptions - 1), JNum(30)),
    QuizItem(JStr(<<"Q">>), BadOptions, JNum(30)),
    QuizItem(JStr(<<" ">>), StrOptions(QuizOptions), JNum(10)),
    QuizItem(JNum(10), StrOptions(QuizOptions), JNum(10)),
    QuizItem(JStr(<<"Q">>), JStr(<<"a">>), JNum(10)),
    JNull, JStr(<<"Q">>), JArr(<<>>)>>

QuizResponses ==
  {Failure, NoTextResponse,
   QuizResponse([kind |-> "noarray"]),
   QuizResponse(QuizArray(<<Thrown, Thrown>>)),
   QuizResponse(QuizArray(<<Parsed(JObj([question |-> JStr(<<"Q">>)]))>>)),
   QuizResponse(QuizArray(<<Thrown, Parsed(JArr(QuizItems))>>)),
   QuizResponse(QuizArray(<<Parsed(JArr(SubSeq(QuizItems, 8, 16))),
                            Parsed(JArr(SubSeq(QuizItems, 5, 9)))>>))}

InitQuiz ==
  /\ variant \in {"A", "B"}
  /\ cactus \in BOOLEAN
  /\ config = RepoConfig
  /\ initialized = TRUE
  /\ initializing = FALSE
  /\ \/ cactus /\ lm = 1 /\ fallbackEnabled = FALSE
     \/ variant = "B" /\ lm = 0 /\ fallbackEnabled = TRUE
  /\ InitBus
  /\ assets = [t \in Topics |-> IF t = "animals" THEN 8 ELSE 0]
  /\ processingCache = {CacheKey("animals")}
  /\ db = [t \in Topics |-> <<>>]
  /\ pc = [p \in Procs |-> IF p = 1 THEN "parsed" ELSE "idle"]
  /\ \E n \in 0..MaxQuizFacts :
       loc = [p \in Procs |->
                IF p = 1
                THEN [NoLoc EXCEPT !.op = "topic", !.topic = "animals",
                                   !.ret = "parse", !.initOk = TRUE, !.textId = 8,
                                   !.parses = 1, !.addedGuard = TRUE,
                                   !.parseOk = TRUE, !.facts = SomeFacts(n)]
                ELSE NoLoc]

NextQuizStage ==
  \/ ParseReturn(1)
  \/ InsertReturn(1)
  \/ InsertFail(1)
  \/ AfterEnsureQuiz(1)
  \/ \E r \in QuizResponses : QuizCompletionReturn(1, r)
  \/ QuizInsertReturn(1)
  \/ QuizInsertFail(1)
  \/ QuizReturn(1)

SpecQuiz == InitQuiz /\ [][NextQuizStage]_vars

(***************************************************************************)
(* initialize() under concurrent callers                                   *)
(***************************************************************************)
NextInitStage ==
  \/ NextInit
  \/ \E p \in Procs : \E textId \in {1, 2} : CallParseTextToFacts(p, textId)
  \/ \E p \in Procs : AfterEnsureParse(p)

SpecInit == InitInit /\ [][NextInitStage]_vars

\* every pending await settles and every running timer fires; whether and
\* when a caller calls is up to the caller
FairSpecInit ==
  /\ SpecInit
  /\ \A p \in Procs :
       /\ WF_vars(PrepareDone(p) \/ PrepareFail(p))
       /\ WF_vars(LmInitDone(p) \/ LmInitFail(p))
       /\ WF_vars(PollTick(p))
       /\ WF_vars(DestroyReturn(p))
       /\ WF_vars(AfterEnsureParse(p))

(***************************************************************************)
(* The service without the native module: initialize, parseTextToFacts and *)
(* destroy in any order                                                    *)
(***************************************************************************)
DegradedTexts == {1, 2, 3, 4, 5}

InitDegraded ==
  /\ InitService
  /\ ~cactus
  /\ config = RepoConfig
  /\ assets = [t \in Topics |-> 0]
  /\ InitRest

NextDegraded ==
  \E p \in Procs :
    \/ CallInitialize(p)
    \/ \E textId \in DegradedTexts : CallParseTextToFacts(p, textId)
    \/ AfterEnsureParse(p)
    \/ CallDestroy(p)

SpecDegraded == InitDegraded /\ [][NextDegraded]_vars

(***************************************************************************)
(* Two concurrent parseTextToFacts runs                                    *)
(***************************************************************************)
PairTexts == {3, 8}

PairResponses ==
  IF variant = "A" THEN ExtractResponsesA
  ELSE {Failure, Empty, Garbage, Json(JObj([content |-> JStr(<<"a">>)])),
        Json(JArr(Items(1, MaxSentences)))}

NextPair ==
  \E p \in TopicProcs :
    \/ \E textId \in PairTexts : CallParseTextToFacts(p, textId)
    \/ PrepareDone(p)
    \/ PrepareFail(p)
    \/ LmInitDone(p)
    \/ LmInitFail(p)
    \/ PollTick(p)
    \/ AfterEnsureParse(p)
    \/ \E r \in PairResponses : CompletionReturn(p, r)
    \/ \E r \in PairResponses : RecoveryReturn(p, r)

InitPair ==
  /\ InitService
  /\ config = RepoConfig
  /\ assets = [t \in Topics |-> 0]
  /\ processingCache = {}
  /\ db = [t \in Topics |-> <<>>]
  /\ pc = [p \in Procs |-> "idle"]
  /\ loc = [p \in Procs |-> [NoLoc EXCEPT !.keepsHistory = TRUE]]

SpecPair == InitPair /\ [][NextPair]_vars

(***************************************************************************)
(* DefaultContentSeeder.ensureSeeded                                       *)
(***************************************************************************)
seedVersion == "default-facts-v2"

\* normalize: value.trim().replace(/\s+/g, ' ')
Normalize(value) == CollapseSpaces(Trim(value))

\* Object.keys(DEFAULT_FACTS), and the texts of each category
Categories == <<"animals", "history">>

DefaultFacts ==
  [animals |-> << <<"a", " ", "b">>, <<" ", "a", " ", " ", "b">>, <<"c">> >>,
   history |-> << <<"d">> >>]

StoredFact(content, source, isQuiz) ==
  [content |-> content, source |-> source, is_quiz |-> isQuiz, quiz_data |-> <<>>]

\* getFactCountByTopic(categoryId, {includeQuizzes: false})
CountNonQuiz(facts) == Cardinality({k \in 1..Len(facts) : ~facts[k].is_quiz})

\* the snapshot of a category taken without looking at what is stored
ExistingSet_Empty(facts) == {}

\* the normalized contents of the stored non-quiz default facts
ExistingSet(facts) ==
  {Normalize(facts[k].content) :
     k \in {i \in 1..Len(facts) : facts[i].source = "default" /\ ~facts[i].is_quiz}}

\* the seeding loops from fact k of category c on (k = 0: the category is
\* entered), up to the next await
RECURSIVE NextSeedStep(_, _, _)
NextSeedStep(c, k, set) ==
  IF c > Len(Categories) THEN [pc |-> "setItem", cat |-> c, k |-> 0, existingSet |-> {}]
  ELSE LET targetFacts == DefaultFacts[Categories[c]]
       IN  IF k = 0
           THEN IF Len(targetFacts) = 0 THEN NextSeedStep(c + 1, 0, {})
                ELSE [pc |-> "getFacts", cat |-> c, k |-> 0, existingSet |-> {}]
           ELSE IF k > Len(targetFacts) THEN NextSeedStep(c + 1, 0, {})
           ELSE IF Normalize(targetFacts[k]) \in set THEN NextSeedStep(c, k + 1, set)
           ELSE [pc |-> "insert", cat |-> c, k |-> k, existingSet |-> set]

NewSeedRun ==
  [pc |-> "getItem", status |-> "running", stored |-> "none", cat |-> 0, k |-> 0,
   existingSet |-> {}]

Running(r) == r \in 1..Len(seedRuns) /\ seedRuns[r].status = "running"

\* the body goes on to its next await
SeedGoes(r, step) ==
  /\ seedRuns' = [seedRuns EXCEPT ![r] = step @@ seedRuns[r]]
  /\ UNCHANGED <<hasSeeded, pending>>

\* the body returns: hasSeeded is set and pending cleared
SeedDone(r) ==
  /\ seedRuns' = [seedRuns EXCEPT ![r].status = "resolved", ![r].pc = "end"]
  /\ hasSeeded' = TRUE
  /\ pending' = 0

\* an await of the body rejects and pending is cleared
SeedFailed_ClearsPending(r) ==
  /\ seedRuns' = [seedRuns EXCEPT ![r].status = "rejected", ![r].pc = "end"]
  /\ pending' = 0
  /\ UNCHANGED hasSeeded

\* an await of the body rejects: the promise held by pending rejects
SeedFailed(r) ==
  /\ seedRuns' = [seedRuns EXCEPT ![r].status = "rejected", ![r].pc = "end"]
  /\ UNCHANGED <<hasSeeded, pending>>

SeedFrame == UNCHANGED <<aiVars, busVars, hookVars, processingCache, assets, pc, loc>>

\* ensureSeeded()
CallEnsureSeeded(p) ==
  /\ pc[p] = "idle"
  /\ LET l == [loc[p] EXCEPT !.op = "seed",
                              !.priorFailed = \E r \in 1..Len(seedRuns) :
                                                seedRuns[r].status = "rejected"]
     IN  IF hasSeeded
         THEN /\ pc' = [pc EXCEPT ![p] = "done"]
              /\ loc' = [loc EXCEPT ![p] = [l EXCEPT !.outcome = "resolved"]]
              /\ UNCHANGED seedVars
         ELSE IF pending # 0
         THEN /\ pc' = [pc EXCEPT ![p] = "seeding"]
              /\ loc' = [loc EXCEPT ![p] = [l EXCEPT !.joined = pending]]
              /\ UNCHANGED seedVars
         ELSE /\ pc' = [pc EXCEPT ![p] = "seeding"]
              /\ loc' = [loc EXCEPT ![p] = [l EXCEPT !.joined = Len(seedRuns) + 1]]
              /\ seedRuns' = Append(seedRuns, NewSeedRun)
              /\ pending' = Len(seedRuns) + 1
              /\ UNCHANGED <<hasSeeded, storedVersion>>
  /\ UNCHANGED <<aiVars, tpVars, busVars, hookVars>>

\* the promise ensureSeeded returned settles for its caller
EnsureSeededReturn(p) ==
  /\ pc[p] = "seeding"
  /\ seedRuns[loc[p].joined].status # "running"
  /\ pc' = [pc EXCEPT ![p] = "done"]
  /\ loc' = [loc EXCEPT ![p].outcome = seedRuns[loc[p].joined].status]
  /\ UNCHANGED <<aiVars, tpVars, busVars, hookVars, seedVars>>

\* AsyncStorage.getItem(flagKey) settles
SeedGetItem(r, ok) ==
  /\ Running(r) /\ seedRuns[r].pc = "getItem"
  /\ IF ok THEN SeedGoes(r, [pc |-> "storageInit", stored |-> storedVersion])
     ELSE SeedFailed(r)
  /\ UNCHANGED <<db, storedVersion>>
  /\ SeedFrame

\* storageService.initialize() settles
SeedStorageInit(r, ok) ==
  /\ Running(r) /\ seedRuns[r].pc = "storageInit"
  /\ IF ~ok THEN SeedFailed(r)
     ELSE IF seedRuns[r].stored # seedVersion THEN SeedGoes(r, NextSeedStep(1, 0, {}))
     ELSE SeedGoes(r, [pc |-> "count", cat |-> 1])
  /\ UNCHANGED <<db, storedVersion>>
  /\ SeedFrame

\* storageService.getFactCountByTopic settles for the category
SeedCount(r, ok) ==
  /\ Running(r) /\ seedRuns[r].pc = "count"
  /\ LET c == seedRuns[r].cat
         categoryId == Categories[c]
     IN  IF ~ok THEN SeedFailed(r)
         ELSE IF CountNonQuiz(db[categoryId]) < Len(DefaultFacts[categoryId])
         THEN SeedGoes(r, NextSeedStep(1, 0, {}))
         ELSE IF c < Len(Categories) THEN SeedGoes(r, [pc |-> "count", cat |-> c + 1])
         ELSE SeedDone(r)
  /\ UNCHANGED <<db, storedVersion>>
  /\ SeedFrame

\* storageService.getFacts(categoryId) settles
SeedGetFacts(r, ok) ==
  /\ Running(r) /\ seedRuns[r].pc = "getFacts"
  /\ LET c == seedRuns[r].cat
     IN  IF ok THEN SeedGoes(r, NextSeedStep(c, 1, ExistingSet(db[Categories[c]])))
         ELSE SeedFailed(r)
  /\ UNCHANGED <<db, storedVersion>>
  /\ SeedFrame

\* storageService.insertFact settles for the next missing text
SeedInsert(r, ok) ==
  /\ Running(r) /\ seedRuns[r].pc = "insert"
  /\ LET c == seedRuns[r].cat
         k == seedRuns[r].k
         factText == DefaultFacts[Categories[c]][k]
     IN  IF ok
         THEN /\ db' = [db EXCEPT ![Categories[c]] =
                          Append(@, StoredFact(factText, "default", FALSE))]
              /\ SeedGoes(r, NextSeedStep(c, k + 1, seedRuns[r].existingSet
                                                      \cup {Normalize(factText)}))
         ELSE /\ SeedFailed(r)
              /\ UNCHANGED db
  /\ UNCHANGED storedVersion
  /\ SeedFrame

\* AsyncStorage.setItem(flagKey, seedVersion) settles
SeedSetItem(r, ok) ==
  /\ Running(r) /\ seedRuns[r].pc = "setItem"
  /\ IF ok THEN /\ storedVersion' = seedVersion
                /\ SeedDone(r)
     ELSE /\ SeedFailed(r)
          /\ UNCHANGED storedVersion
  /\ UNCHANGED db
  /\ SeedFrame

\* what the facts table holds when the application starts
SeedTables ==
  {[animals |-> <<>>, history |-> <<>>],
   [animals |-> <<StoredFact(<<"a", " ", " ", "b", " ">>, "default", FALSE),
                  StoredFact(<<"c">>, "default", TRUE),
                  StoredFact(<<"c">>, "user_upload", FALSE)>>,
    history |-> <<StoredFact(<<"d">>, "default", FALSE)>>],
   [animals |-> <<StoredFact(<<"x">>, "user_upload", FALSE),
                  StoredFact(<<"y">>, "user_upload", FALSE),
                  StoredFact(<<"a", " ", "b">>, "default", FALSE)>>,
    history |-> <<StoredFact(<<"d">>, "default", FALSE)>>]}

InitSeed ==
  /\ variant = "B"
  /\ cactus = TRUE
  /\ lm = 0
  /\ initialized = FALSE
  /\ initializing = FALSE
  /\ fallbackEnabled = FALSE
  /\ progressListeners = <<>>
  /\ subscriptions = [h \in Handles |-> NoSubscription]
  /\ delivered = [listener \in AllListeners |-> <<>>]
  /\ emitted = 0
  /\ emitThrew = FALSE
  /\ downloadProgress = [modelId \in ModelIds |-> NoPercent]
  /\ progressLog = <<>>
  /\ logged = <<>>
  /\ hasSeeded = FALSE
  /\ pending = 0
  /\ seedRuns = <<>>
  /\ storedVersion \in {"none", "default-facts-v1", seedVersion}
  /\ config = RepoConfig
  /\ assets = [t \in Topics |-> 0]
  /\ processingCache = {}
  /\ db \in SeedTables
  /\ pc = [p \in Procs |-> "idle"]
  /\ loc = [p \in Procs |-> NoLoc]

NextSeed ==
  \/ \E p \in Procs : CallEnsureSeeded(p)
  \/ \E p \in Procs : EnsureSeededReturn(p)
  \/ \E r \in Procs :
       \/ \E ok \in BOOLEAN : SeedGetItem(r, ok)
       \/ \E ok \in BOOLEAN : SeedStorageInit(r, ok)
       \/ \E ok \in BOOLEAN : SeedCount(r, ok)
       \/ \E ok \in BOOLEAN : SeedGetFacts(r, ok)
       \/ \E ok \in BOOLEAN : SeedInsert(r, ok)
       \/ \E ok \in BOOLEAN : SeedSetItem(r, ok)

SpecSeed == InitSeed /\ [][NextSeed]_vars

(***************************************************************************)
(* stripThinkingBlocks                                                     *)
(***************************************************************************)
OpenTag == <<"<", "t", "h", "i", "n", "k", ">">>
CloseTag == <<"<", "/", "t", "h", "i", "n", "k", ">">>

\* the i flag of the two patterns, on the letters of the tags
FoldCase(ch) ==
  CASE ch = "T" -> "t"
    [] ch = "H" -> "h"
    [] ch = "I" -> "i"
    [] ch = "N" -> "n"
    [] ch = "K" -> "k"
    [] OTHER -> ch

\* the tag matches s at position i
TagAt(s, i, tag) ==
  /\ i + Len(tag) - 1 <= Len(s)
  /\ \A k \in 1..Len(tag) : FoldCase(s[i + k - 1]) = tag[k]

\* the first position from j on where the closing tag matches, 0 if none
FirstClose(s, j) ==
  IF \E k \in j..Len(s) : TagAt(s, k, CloseTag)
  THEN CHOOSE k \in j..Len(s) :
         TagAt(s, k, CloseTag) /\ \A m \in j..(k - 1) : ~TagAt(s, m, CloseTag)
  ELSE 0

\* raw.replace(/<think>[\s\S]*?<\/think>/gi, ''), from position i on
RECURSIVE RemoveBlocks(_, _)
RemoveBlocks(s, i) ==
  IF i > Len(s) THEN <<>>
  ELSE IF TagAt(s, i, OpenTag) /\ FirstClose(s, i + Len(OpenTag)) # 0
  THEN RemoveBlocks(s, FirstClose(s, i + Len(OpenTag)) + Len(CloseTag))
  ELSE <<s[i]>> \o RemoveBlocks(s, i + 1)

\* cleaned.replace(/<think>|<\/think>/gi, ''), from position i on
RECURSIVE RemoveTags(_, _)
RemoveTags(s, i) ==
  IF i > Len(s) THEN <<>>
  ELSE IF TagAt(s, i, OpenTag) THEN RemoveTags(s, i + Len(OpenTag))
  ELSE IF TagAt(s, i, CloseTag) THEN RemoveTags(s, i + Len(CloseTag))
  ELSE <<s[i]>> \o RemoveTags(s, i + 1)

StripThinkingBlocks(raw) ==
  IF raw = <<>> THEN raw
  ELSE Trim(RemoveTags(RemoveBlocks(raw, 1), 1))

\* input strings: up to MaxPieces pieces, tags, parts of tags and text
MaxPieces == 4

Pieces ==
  {OpenTag, CloseTag, <<"<", "T", "H", "I", "N", "K", ">">>, <<"<", "t", "h", "i">>,
   <<"n", "k", ">">>, <<"<", "/">>, <<"x">>, <<" ">>}

RECURSIVE Concat(_)
Concat(ps) == IF ps = <<>> THEN <<>> ELSE Head(ps) \o Concat(Tail(ps))

StripInputs == {Concat(ps) : ps \in UNION {[1..n -> Pieces] : n \in 0..MaxPieces}}

\* stripThinkingBlocks(raw)
CallStrip(p) ==
  /\ pc[p] = "idle"
  /\ SetPc(p, "stripped", [loc[p] EXCEPT !.op = "strip",
                                         !.stripped = StripThinkingBlocks(loc[p].input)])
  /\ UNCHANGED <<aiVars, tpVars>>

\* stripThinkingBlocks applied to its own result
CallStripAgain(p) ==
  /\ pc[p] = "stripped"
  /\ SetPc(p, "done", [loc[p] EXCEPT !.restripped = StripThinkingBlocks(loc[p].stripped)])
  /\ UNCHANGED <<aiVars, tpVars>>

InitStrip ==
  /\ variant = "B"
  /\ InitService
  /\ config = RepoConfig
  /\ assets = [t \in Topics |-> 0]
  /\ processingCache = {}
  /\ db = [t \in Topics |-> <<>>]
  /\ pc = [p \in Procs |-> "idle"]
  /\ \E raw \in StripInputs :
       loc = [p \in Procs |-> IF p = 1 THEN [NoLoc EXCEPT !.input = raw] ELSE NoLoc]

NextStrip ==
  \/ CallStrip(1)
  \/ CallStripAgain(1)

SpecStrip == InitStrip /\ [][NextStrip]_vars

(***************************************************************************)
(* AIService.runCompletion                                                 *)
(***************************************************************************)
\* what this.lm.complete(...) can do: throw (reject), or resolve with a result
\* that reports failure or success
\* result.response: a non-empty string, '', absent, or not a string
ResponseKinds == {"text", "empty", "missing", "nonstring"}

CapabilityOutcomes ==
  {[kind |-> "threw", success |-> FALSE, response |-> "missing"]}
  \cup {[kind |-> "reported", success |-> FALSE, response |-> r] : r \in ResponseKinds}
  \cup {[kind |-> "ok", success |-> TRUE, response |-> r] : r \in ResponseKinds}

\* runCompletion(messages, options) up to its await (history: whether a
\* session existed at the call)
CallRunCompletion(p) ==
  /\ pc[p] = "idle"
  /\ LET l == [loc[p] EXCEPT !.op = "complete", !.hadSession = (lm # 0)]
     IN  IF lm = 0
         THEN SetPc(p, "done", [l EXCEPT !.outcome = "rejected"])
         ELSE SetPc(p, "complete", [l EXCEPT !.requests = @ + 1])
  /\ UNCHANGED <<aiVars, tpVars>>

\* what runCompletion makes of a settled this.lm.complete: variant A throws
\* unless result.success, variant B returns the response text or ''
CompletionOutcome(c) ==
  IF c.kind = "threw" THEN "rejected"
  ELSE IF variant = "A" /\ ~c.success THEN "rejected"
  ELSE "resolved"

\* the value a resolved runCompletion returns: variant A result.response as it
\* is, variant B the stripped text of a string response and '' otherwise
CompletionValue(c) ==
  IF CompletionOutcome(c) = "rejected" THEN "none"
  ELSE IF variant = "A" THEN c.response
  ELSE IF c.response = "text" THEN "text" ELSE "empty"

\* this.lm.complete(...) settled
CompleteReturn(p, c) ==
  /\ pc[p] = "complete"
  /\ SetPc(p, "done", [loc[p] EXCEPT !.capability = c.kind,
                                     !.payload = c.response,
                                     !.outcome = CompletionOutcome(c),
                                     !.returned = CompletionValue(c)])
  /\ UNCHANGED <<aiVars, tpVars>>

NextCompletion ==
  \/ NextInit
  \/ \E p \in Procs : CallRunCompletion(p)
  \/ \E p \in Procs : \E c \in CapabilityOutcomes : CompleteReturn(p, c)

SpecCompletion == InitInit /\ [][NextCompletion]_vars

(***************************************************************************)
(* prepareModelInstance: the onProgress callback of the download           *)
(***************************************************************************)
MaxCallbacks == 3

\* a progress value handed to onProgress: a fraction in thousandths, NaN or
\* Infinity
Fraction(thousandths) == [kind |-> "num", v |-> thousandths]
NaN == [kind |-> "nan", v |-> 0]
Infinity == [kind |-> "inf", v |-> 0]
ProgressValues == {Fraction(4), Fraction(5), Fraction(1000), NaN, Infinity}

\* Number.isFinite
IsFinite(x) == x.kind = "num"

\* Math.round(progress * 100): halves round up
RoundPercent(progress) ==
  IF progress.kind = "num"
  THEN [kind |-> "num", v |-> (progress.v + 5) \div 10]
  ELSE progress

\* a === b on numbers: NaN equals nothing
StrictEquals(a, b) == a.kind # "nan" /\ b.kind # "nan" /\ a = b

\* the model whose download p awaits
DownloadingModel(p) == Candidates[loc[p].cand]

\* onProgress letting every callback through
IsNewPercent_Always(last, progress) == TRUE

\* onProgress: is the callback's percentage to be emitted? Variant A drops
\* values that are not finite; both compare with the last percentage only
IsNewPercent(last, progress) ==
  IF variant = "A"
  THEN IsFinite(progress) /\ ~StrictEquals(last, RoundPercent(progress))
  ELSE last = NoPercent \/ ~StrictEquals(RoundPercent(progress), last)

\* the download of p's candidate calls onProgress(progress)
OnProgress(p, progress) ==
  /\ pc[p] = "prep"
  /\ loc[p].callbacks < MaxCallbacks
  /\ LET modelId == DownloadingModel(p)
         l == [loc[p] EXCEPT !.callbacks = @ + 1]
     IN  IF IsNewPercent(downloadProgress[modelId], progress)
         THEN /\ downloadProgress' =
                   [downloadProgress EXCEPT ![modelId] = RoundPercent(progress)]
              /\ loc' = [loc EXCEPT ![p] =
                           Emit(l, [type |-> "model-download", modelId |-> modelId,
                                    progress |-> progress])]
         ELSE /\ loc' = [loc EXCEPT ![p] = l]
              /\ UNCHANGED downloadProgress
  /\ UNCHANGED <<aiVars, tpVars, hookVars, seedVars, pc, progressListeners, subscriptions, delivered,
                 emitted, emitThrew>>

NextDownload ==
  \E p \in TopicProcs :
    \/ CallInitialize(p)
    \/ \E progress \in ProgressValues : OnProgress(p, progress)
    \/ PrepareDone(p)
    \/ PrepareFail(p)
    \/ LmInitDone(p)
    \/ LmInitFail(p)
    \/ PollTick(p)

SpecDownload == InitInit /\ [][NextDownload]_vars

(***************************************************************************)
(* useAIService: the progress log kept by updateProcessingStatus           *)
(***************************************************************************)
LogCap == 25
MaxDeliveries == 27
MaxExtras == 2

\* the template string of an event, as its fixed text and the values
\* formatted into it
LogEntry(event) ==
  CASE event.type = "model-download" ->
         <<"Model download", event.modelId, RoundPercent(event.progress)>>
    [] event.type = "parse-chunk-start" ->
         <<"Processing chunk", event.chunkIndex, event.totalChunks, event.topic>>
    [] event.type = "parse-start" -> <<"Started parsing", event.topic>>
    [] OTHER -> <<>>

\* prev.slice(-n)
LastN(seq, n) == SubSeq(seq, Max(1, Len(seq) - n + 1), Len(seq))

\* the updater handed to setProgressLog appending every entry
AppendEntry_NoDedup(prev, logEntry) == LastN(Append(prev, logEntry), LogCap)

\* the updater handed to setProgressLog
AppendEntry(prev, logEntry) ==
  IF Len(prev) > 0 /\ prev[Len(prev)] = logEntry THEN prev
  ELSE LastN(Append(prev, logEntry), LogCap)

\* updateProcessingStatus(event), the part that keeps the log
UpdateProcessingStatus(event) ==
  /\ Len(logged) < MaxDeliveries
  /\ logged' = Append(logged, LogEntry(event))
  /\ progressLog' = AppendEntry(progressLog, LogEntry(event))
  /\ UNCHANGED <<aiVars, tpVars, busVars, seedVars, pc, loc>>

\* the events the hook is given: the start of the next chunk, and a few
\* others (a topic's parse-start, download percentages that round alike)
NextChunkStart ==
  [type |-> "parse-chunk-start", topic |-> "animals",
   chunkIndex |-> Len(logged) + 1, totalChunks |-> MaxDeliveries]

ExtraEvents ==
  {[type |-> "parse-start", topic |-> "animals"],
   [type |-> "model-download", modelId |-> 1, progress |-> Fraction(4)],
   [type |-> "model-download", modelId |-> 1, progress |-> Fraction(1)]}

Extras == Cardinality({k \in 1..Len(logged) : logged[k][1] # "Processing chunk"})

NextHook ==
  \/ UpdateProcessingStatus(NextChunkStart)
  \/ \E event \in ExtraEvents : Extras < MaxExtras /\ UpdateProcessingStatus(event)

InitHook ==
  /\ InitService
  /\ variant = "A"
  /\ cactus
  /\ config = RepoConfig
  /\ assets = [t \in Topics |-> 0]
  /\ InitRest

SpecHook == InitHook /\ [][NextHook]_vars

(***************************************************************************)
(* subscribeProgress, setProgressListener, emitProgress                    *)
(***************************************************************************)
\* Set.add: a value that is present keeps its place
SetAdd(set, x) ==
  IF \E i \in 1..Len(set) : set[i] = x THEN set ELSE Append(set, x)

\* Set.delete
SetDelete(set, x) == SelectSeq(set, LAMBDA y : y # x)

\* the forEach of emitProgress without the try/catch around the listener:
\* the first listener that throws ends the iteration
RECURSIVE CallListeners_NoCatch(_, _, _, _)
CallListeners_NoCatch(set, i, event, log) ==
  IF i > Len(set) THEN [log |-> log, threw |-> FALSE]
  ELSE LET log1 == [log EXCEPT ![set[i]] = Append(@, event)]
       IN  IF set[i] \in ThrowingListeners
           THEN [log |-> log1, threw |-> TRUE]
           ELSE CallListeners_NoCatch(set, i + 1, event, log1)

\* the forEach of emitProgress from the i-th listener on: each listener is
\* called with the event, and what it throws is caught and logged
RECURSIVE CallListeners(_, _, _, _)
CallListeners(set, i, event, log) ==
  IF i > Len(set) THEN [log |-> log, threw |-> FALSE]
  ELSE CallListeners(set, i + 1, event, [log EXCEPT ![set[i]] = Append(@, event)])

\* the next subscribeProgress call of the history
NextHandle ==
  IF \E h \in Handles : subscriptions[h].listener = 0
  THEN CHOOSE h \in Handles :
         /\ subscriptions[h].listener = 0
         /\ \A g \in Handles : g < h => subscriptions[g].listener # 0
  ELSE 0

\* subscribeProgress(listener)
SubscribeProgress(listener) ==
  /\ NextHandle # 0
  /\ progressListeners' = SetAdd(progressListeners, listener)
  /\ subscriptions' = [subscriptions EXCEPT ![NextHandle] =
                         [listener |-> listener, open |-> TRUE,
                          from |-> emitted, to |-> 0]]
  /\ UNCHANGED <<aiVars, tpVars, hookVars, seedVars, pc, loc, delivered, emitted, emitThrew,
                 downloadProgress>>

\* the function subscribeProgress returned is called (once)
Unsubscribe(h) ==
  /\ subscriptions[h].open
  /\ progressListeners' = SetDelete(progressListeners, subscriptions[h].listener)
  /\ subscriptions' = [subscriptions EXCEPT ![h].open = FALSE, ![h].to = emitted]
  /\ UNCHANGED <<aiVars, tpVars, hookVars, seedVars, pc, loc, delivered, emitted, emitThrew,
                 downloadProgress>>

\* setProgressListener(listener) of TextProcessor.ts; 0 is no argument
SetProgressListener(listener) ==
  /\ variant = "B"
  /\ progressListeners' = IF listener = 0 THEN <<>> ELSE <<listener>>
  /\ UNCHANGED <<aiVars, tpVars, hookVars, seedVars, pc, loc, subscriptions, delivered, emitted,
                 emitThrew, downloadProgress>>

\* emitProgress(event); the event is named by its number
EmitProgress ==
  /\ emitted < MaxEmits
  /\ emitted' = emitted + 1
  /\ LET res == CallListeners(progressListeners, 1, emitted + 1, delivered)
     IN  /\ delivered' = res.log
         /\ emitThrew' = (emitThrew \/ res.threw)
  /\ UNCHANGED <<aiVars, tpVars, hookVars, seedVars, pc, loc, progressListeners, subscriptions,
                 downloadProgress>>

InitProgress ==
  /\ InitService
  /\ config = RepoConfig
  /\ assets = [t \in Topics |-> 0]
  /\ InitRest

NextProgress ==
  \/ \E listener \in Listeners : SubscribeProgress(listener)
  \/ \E h \in Handles : Unsubscribe(h)
  \/ \E listener \in {0, SetListener} : SetProgressListener(listener)
  \/ EmitProgress

SpecProgress == InitProgress /\ [][NextProgress]_vars

(***************************************************************************)
(* Claims                                                                  *)
(***************************************************************************)
\* the stages of processTopicFile after processingCache.add
PastGuard ==
  {"load", "poll", "prep", "lminit", "ensured", "completion", "recovery", "parsed",
   "saving", "quiz_completion", "quiz_saving", "quiz_return"}

RunsOf(t) ==
  {p \in Procs : loc[p].op = "topic" /\ loc[p].topic = t /\ pc[p] \in PastGuard}

\* C1: for every topic, at most one processTopicFile call at a time is past
\* the guard and running the load/extract/save stages
C1_AtMostOneRunPerTopic ==
  \A t \in Topics : Cardinality(RunsOf(t)) <= 1

DidNothing(p) ==
  /\ loc[p].parses = 0
  /\ loc[p].requests = 0
  /\ loc[p].inserts = 0
  /\ loc[p].inserted = 0

\* C2 as stated: a processTopicFile call made after an earlier call for the
\* topic has returned performs no extraction work and inserts nothing,
\* whatever the earlier call produced
C2_SecondCallIsNoOp ==
  \A p \in Procs : loc[p].op = "topic" /\ loc[p].priorDone => DidNothing(p)

\* C2 amended: a processTopicFile call made after an earlier call for the
\* topic has returned, with at least one fact of the topic persisted, performs
\* no extraction work, inserts nothing and emits nothing
C2_SecondCallIsNoOpWhenFactsExist ==
  \A p \in Procs :
    loc[p].op = "topic" /\ loc[p].priorDone /\ loc[p].priorFacts > 0
      => DidNothing(p) /\ loc[p].events = <<>> /\ pc[p] \in {"getFacts", "done"}

C2_Witness ==
  \E p \in Procs :
    /\ loc[p].op = "topic" /\ loc[p].priorDone /\ loc[p].priorFacts > 0
    /\ pc[p] = "done" /\ loc[p].outcome = "resolved"
    /\ Len(db[loc[p].topic]) = loc[p].priorFacts

\* C3: at most one initialize() call executes model provisioning at any
\* time, and none does while the service is initialized
C3_SingleFlight ==
  /\ Cardinality(Provisioning) <= 1
  /\ initialized => Provisioning = {}
  /\ \A p \in Procs : loc[p].provisioned <= 1

C3_Witness ==
  \E p, q \in Procs :
    /\ p # q
    /\ loc[p].provisioned = 1 /\ loc[p].initResult = "resolved"
    /\ loc[q].joined = p /\ loc[q].provisioned = 0 /\ loc[q].initResult = "resolved"

\* C4: every initialize() call that arrives while another initialization is
\* in flight eventually returns, with the outcome of the in-flight call
C4_WaitersShareOutcome ==
  /\ \A p \in Procs : (pc[p] = "poll") ~> (pc[p] # "poll")
  /\ [](\A p \in Procs :
          (loc[p].joined # 0 /\ loc[p].initResult # "none")
            => loc[p].initResult = loc[loc[p].joined].initResult)

\* C5: a key of the in-flight set belongs to a processTopicFile run that
\* added it and has not returned; so the set is empty when no call is in flight
C5_GuardReleased ==
  /\ processingCache \subseteq
       {CacheKey(loc[p].topic) :
          p \in {q \in Procs : loc[q].op = "topic" /\ loc[q].addedGuard /\ pc[q] # "done"}}
  /\ (\A p \in Procs : pc[p] \in {"idle", "done"}) => processingCache = {}

C5_Witness ==
  /\ processingCache = {}
  /\ \A p \in TopicProcs : pc[p] = "done" /\ loc[p].addedGuard
  /\ \E p \in TopicProcs : loc[p].outcome = "rejected" /\ loc[p].inserts > 0
  /\ \E p \in TopicProcs : loc[p].outcome = "resolved" /\ loc[p].textId = 0

LengthOk(content) == Len(content) >= 1 /\ Len(content) <= 200
AllLengthOk(facts) == \A i \in 1..Len(facts) : LengthOk(facts[i].content)

\* C6: every fact an extraction run accepts or returns, and every non-quiz
\* fact persisted, has a content of 1 to 200 characters
C6_ContentLength ==
  /\ \A p \in Procs :
       AllLengthOk(loc[p].allFacts) /\ AllLengthOk(loc[p].facts) /\ AllLengthOk(loc[p].result)
  /\ \A t \in Topics :
       \A i \in 1..Len(db[t]) : ~db[t][i].is_quiz => LengthOk(db[t][i].content)

C6_Witness ==
  /\ variant = "B"
  /\ loc[1].mode = "model"
  /\ pc[1] = "done" /\ loc[1].outcome = "resolved"
  /\ \E i \in 1..Len(db["history"]) : Len(db["history"][i].content) = 200
  /\ \E i \in 1..Len(db["history"]) : Len(db["history"][i].content) = 1

\* trim, lower-case, collapse runs of whitespace
NormalizedContent(content) == CollapseSpaces(ToLowerCase(Trim(content)))

\* C7: the facts an extraction run returns differ pairwise after trimming,
\* lower-casing and collapsing runs of whitespace
C7_DistinctNormalized ==
  \A p \in Procs :
    (pc[p] = "done" /\ loc[p].op = "parse" /\ variant = "B") =>
      \A i, j \in 1..Len(loc[p].result) :
        i < j => NormalizedContent(loc[p].result[i].content)
                   # NormalizedContent(loc[p].result[j].content)

\* the facts accepted before the k-th event of a run, by its chunk-complete events
RECURSIVE AcceptedBefore(_, _)
AcceptedBefore(events, k) ==
  IF k <= 1 THEN 0
  ELSE AcceptedBefore(events, k - 1)
       + (IF events[k - 1].type = "parse-chunk-complete"
          THEN events[k - 1].factsGenerated ELSE 0)

\* C8: an extraction run of variant B holds at most 120 accepted facts in
\* model mode and returns at most 60 in fallback mode; no chunk is started and
\* no completion request is outstanding once 120 facts are accepted
C8_FactCaps ==
  \A p \in Procs :
    variant = "B" =>
      /\ Len(loc[p].allFacts) <= 120
      /\ loc[p].mode = "fallback" => Len(loc[p].facts) <= 60 /\ Len(loc[p].result) <= 60
      /\ pc[p] \in {"completion", "recovery"} => Len(loc[p].allFacts) < 120
      /\ \A k \in 1..Len(loc[p].events) :
           loc[p].events[k].type = "parse-chunk-start"
             => AcceptedBefore(loc[p].events, k) < 120

C8_Witness ==
  /\ variant = "B"
  /\ loc[1].mode = "model"
  /\ pc[1] = "done"
  /\ Len(loc[1].result) = 120
  /\ loc[1].total = 3
  /\ Cardinality({k \in 1..Len(loc[1].events) :
                    loc[1].events[k].type = "parse-chunk-start"}) = 2

QuizFacts(t) ==
  LET isQuiz(f) == f.is_quiz
  IN  Filter(db[t], isQuiz)

\* C9: every persisted quiz has a non-empty question, exactly 4 non-empty
\* options and an integer correct_answer in 0..3
C9_QuizShape ==
  \A t \in Topics :
    \A i \in 1..Len(QuizFacts(t)) :
      LET quiz == QuizFacts(t)[i].quiz_data
      IN  /\ Len(quiz.question) > 0
          /\ Len(quiz.options) = 4
          /\ \A k \in 1..Len(quiz.options) : Len(quiz.options[k]) > 0
          /\ quiz.correct_answer \in 0..3

C9_Witness ==
  /\ pc[1] = "done"
  /\ Len(QuizFacts("animals")) = 3
  /\ QuizFacts("animals")[1].quiz_data.correct_answer = 2
  /\ QuizFacts("animals")[2].quiz_data.correct_answer = 0
  /\ QuizFacts("animals")[3].quiz_data.correct_answer = 3

\* min(5, max(floor(N/8), N >= 4 ? 1 : 0))
QuizBound(n) ==
  LET a == n \div 8
      b == IF n >= 4 THEN 1 ELSE 0
      m == IF a >= b THEN a ELSE b
  IN  IF m <= 5 THEN m ELSE 5

CountEvents(events, type) ==
  Cardinality({k \in 1..Len(events) : events[k].type = type})

\* ceil(len / chunkSize)
CeilDiv(len, chunkSize) == (len + chunkSize - 1) \div chunkSize

\* C11: an extraction run in model mode on a non-empty trimmed text of length
\* L with chunk size C that has returned emitted parse-start with
\* totalChunks = ceil(L/C), exactly ceil(L/C) parse-chunk-start events and
\* exactly ceil(L/C) parse-chunk-complete events
C11_ChunkEventPairs ==
  \A p \in Procs :
    (loc[p].op = "parse" /\ pc[p] = "done" /\ loc[p].outcome = "resolved"
       /\ loc[p].mode = "model") =>
      LET n == CeilDiv(Len(NormalizedText(loc[p])), ChunkSizeOf(loc[p]))
      IN  /\ loc[p].events[1].type = "parse-start"
          /\ loc[p].events[1].totalChunks = n
          /\ CountEvents(loc[p].events, "parse-chunk-start") = n
          /\ CountEvents(loc[p].events, "parse-chunk-complete") = n

\* parseTextToFacts of the call of p has settled / has resolved
ParseHasSettled(p) ==
  \/ loc[p].op = "parse" /\ pc[p] = "done"
  \/ loc[p].op = "text" /\ pc[p] \in {"parsed", "text_saving", "done"}
ParseHasResolved(p) ==
  \/ loc[p].op = "parse" /\ loc[p].outcome = "resolved"
  \/ loc[p].op = "text" /\ loc[p].parseOk

TerminalEvents(events) ==
  CountEvents(events, "parse-complete") + CountEvents(events, "parse-error")

\* C12: an extraction run that emitted parse-start emits no terminal event
\* before it settles and exactly one, as its last event, when it settles:
\* parse-complete iff the call resolves, parse-error with a message iff it rejects
C12_OneTerminalEvent ==
  \A p \in Procs :
    (loc[p].op \in {"parse", "text"}
       /\ CountEvents(loc[p].events, "parse-start") > 0) =>
      LET events == loc[p].events
          last == events[Len(events)]
      IN  IF ParseHasSettled(p)
          THEN /\ TerminalEvents(events) = 1
               /\ last.type \in {"parse-complete", "parse-error"}
               /\ (last.type = "parse-complete") <=> ParseHasResolved(p)
               /\ (last.type = "parse-error") <=> ~ParseHasResolved(p)
               /\ last.type = "parse-error" => "message" \in DOMAIN last
          ELSE TerminalEvents(events) = 0

C12_Witness ==
  /\ variant = "A"
  /\ loc[1].op = "parse" /\ pc[1] = "done" /\ loc[1].outcome = "rejected"
  /\ loc[1].total = 3
  /\ loc[1].events[1].type = "parse-start"
  /\ loc[1].events[Len(loc[1].events)].type = "parse-error"
  /\ CountEvents(loc[1].events, "parse-chunk-complete") = 2

IsPrefix(s, t) == Len(s) <= Len(t) /\ SubSeq(t, 1, Len(s)) = s

\* the events a step of p appended
NewEvents(p) == SubSeq(loc[p].events', Len(loc[p].events) + 1, Len(loc[p].events'))

\* C13: the step that handles a failed completion request emits no
\* parse-error and does not reject; it keeps the facts accepted so far and
\* either starts the next chunk or ends the run with parse-complete; a run
\* that had a failure and resolved returns the facts it held at the failure
C13_CompletionFailureIsLocal ==
  /\ [](\A p \in Procs :
          (loc[p].failures > 0 /\ ParseHasSettled(p) /\ ParseHasResolved(p)) =>
            /\ loc[p].events[Len(loc[p].events)].type = "parse-complete"
            /\ loc[p].op = "parse" => IsPrefix(loc[p].keptAtFailure, loc[p].result))
  /\ [][\A p \in Procs :
          loc[p].failures' > loc[p].failures =>
            /\ IsPrefix(loc[p].events, loc[p].events')
            /\ \A k \in 1..Len(NewEvents(p)) : NewEvents(p)[k].type # "parse-error"
            /\ loc[p].outcome' # "rejected"
            /\ IsPrefix(loc[p].allFacts, loc[p].allFacts')
            /\ IF pc[p]' = "completion"
               THEN /\ loc[p].idx' = loc[p].idx + 1
                    /\ NewEvents(p)[Len(NewEvents(p))].type = "parse-chunk-start"
               ELSE /\ ParseHasSettled(p)' /\ ParseHasResolved(p)'
                    /\ NewEvents(p)[Len(NewEvents(p))].type = "parse-complete"]_vars

C13_Witness ==
  /\ loc[1].op = "parse" /\ pc[1] = "done" /\ loc[1].outcome = "resolved"
  /\ loc[1].total = 3
  /\ loc[1].failures = 1
  /\ Len(loc[1].keptAtFailure) > 0
  /\ Len(loc[1].result) > Len(loc[1].keptAtFailure)
  /\ CountEvents(loc[1].events, "parse-chunk-start") = 3
  /\ CountEvents(loc[1].events, "parse-chunk-complete") = 2

NonQuizFacts(t) ==
  LET isFact(f) == ~f.is_quiz
  IN  Filter(db[t], isFact)

\* C14: a run whose quiz completion request failed or yielded no valid quiz
\* item resolves, has every extracted fact persisted, inserts no quiz fact
\* and emits quiz-complete with total 0
C14_QuizFailureIsLocal ==
  \A p \in Procs :
    (loc[p].op = "topic" /\ loc[p].quizAsked /\ loc[p].quizzes = <<>>
       /\ pc[p] \in {"quiz_return", "done"}) =>
      /\ pc[p] = "done" => loc[p].outcome = "resolved"
      /\ loc[p].saved = Len(loc[p].facts)
      /\ NonQuizFacts(loc[p].topic)
           = [k \in 1..Len(loc[p].facts) |-> FactInputOf(loc[p].facts[k])]
      /\ loc[p].inserted = 0
      /\ QuizFacts(loc[p].topic) = <<>>
      /\ \E k \in 1..Len(loc[p].events) :
           loc[p].events[k].type = "quiz-complete" /\ loc[p].events[k].total = 0

C14_Witness ==
  /\ pc[1] = "done" /\ loc[1].outcome = "resolved"
  /\ loc[1].quizAsked /\ loc[1].quizzes = <<>>
  /\ Len(loc[1].facts) = 16
  /\ Len(db["animals"]) = 16
  /\ loc[1].expected = 2

\* C15: a processTopicFile run in which a storage insert failed, of an
\* extracted fact or of a quiz fact, rejects, and the topic's guard entry is
\* released
C15_InsertFailureRejects ==
  \A p \in Procs :
    (loc[p].op = "topic" /\ loc[p].insertFailed # "none" /\ pc[p] = "done") =>
      /\ loc[p].outcome = "rejected"
      /\ CacheKey(loc[p].topic) \notin processingCache

InitRejects(p) == loc[p].initResult = "none" /\ loc'[p].initResult = "rejected"

\* some earlier initialize() has rejected
SomeInitRejected == \E q \in Procs : loc[q].initResult = "rejected"

\* p enters initialize() in this step
InitCalled(p) ==
  /\ pc[p] = "idle"
  /\ \/ loc'[p].op = "init"
     \/ loc'[p].op = "parse" /\ ~initialized

\* C17: when preparation or init fails for every candidate, initialize()
\* rejects and leaves the service not initialized, not initializing and
\* without a session; an initialize() called after that, with no other call in
\* between having changed the service, provisions again from the first
\* candidate
C17_RejectionResets ==
  [][variant = "A" =>
       \A p \in Procs :
         /\ InitRejects(p) =>
              /\ loc[p].cand = Len(Candidates)
              /\ ~initialized' /\ ~initializing' /\ lm' = 0
         /\ (InitCalled(p) /\ SomeInitRejected /\ ~initialized /\ ~initializing) =>
              /\ pc'[p] = "prep" /\ loc'[p].cand = 1 /\ loc'[p].provisioned = 1
              /\ initializing' /\ ~initialized' /\ lm' = 0]_vars

C17_Witness ==
  /\ variant = "A" /\ Len(Candidates) = 2
  /\ \E p, q \in Procs :
       /\ loc[p].op = "init" /\ loc[p].outcome = "rejected" /\ loc[p].cand = 2
       /\ loc[q].op = "init" /\ loc[q].provisioned = 1 /\ loc[q].outcome = "resolved"
       /\ lm = Candidates[1]

\* C18: for every empty or whitespace-only text and every state of the
\* service, parseTextToFacts returns the empty sequence, emits no progress
\* event and issues no completion request
C18_EmptyTextIsNoOp ==
  \A p \in Procs :
    (loc[p].op = "parse" /\ Len(NormalizedText(loc[p])) = 0) =>
      /\ loc[p].events = <<>>
      /\ loc[p].requests = 0
      /\ pc[p] = "done" => (loc[p].outcome = "resolved" /\ loc[p].result = <<>>)

\* p calls processTopicFile in this step while the topic's key is in the
\* in-flight set
FindsGuard(p) ==
  /\ pc[p] = "idle" /\ loc'[p].op = "topic"
  /\ CacheKey(loc'[p].topic) \in processingCache

\* the getFacts query of p resolves in this step with a persisted fact
FindsFact(p) ==
  /\ pc[p] = "getFacts" /\ pc'[p] # "getFacts"
  /\ loc'[p].outcome # "rejected"
  /\ Len(db[loc[p].topic]) >= 1

\* C19: a processTopicFile call that finds the topic in the in-flight set, or
\* finds a persisted fact of the topic, returns in that step having emitted no
\* event, inserted nothing and issued no completion request, and leaves the
\* in-flight set as it was
C19_SkipIsSilent ==
  [][\A p \in Procs :
       (FindsGuard(p) \/ FindsFact(p)) =>
         /\ pc'[p] = "done" /\ loc'[p].outcome = "resolved"
         /\ loc'[p].events = <<>> /\ DidNothing(p)'
         /\ ~loc'[p].addedGuard
         /\ processingCache' = processingCache
         /\ db' = db]_vars

\* a call has returned at the in-flight set (no fact of the topic exists)
\* while the run it met is still loading the topic file
C19_Witness ==
  \E p, q \in Procs :
    /\ p # q
    /\ loc[p].op = "topic" /\ loc[p].addedGuard /\ pc[p] = "load"
    /\ loc[q].op = "topic" /\ loc[q].topic = loc[p].topic /\ pc[q] = "done"
    /\ loc[q].outcome = "resolved" /\ ~loc[q].addedGuard
    /\ db[loc[p].topic] = <<>>
    /\ processingCache = {CacheKey(loc[p].topic)}

\* the stage an event belongs to: 1 extraction, 2 fact saving, 3 end of fact
\* saving, 4 quiz
StageOf(event) ==
  IF event.type = "storage-save-progress" THEN 2
  ELSE IF event.type = "storage-complete" THEN 3
  ELSE IF event.type \in {"quiz-start", "quiz-progress", "quiz-complete"} THEN 4
  ELSE 1

SaveEvents(events) ==
  SelectSeq(events, LAMBDA e : e.type = "storage-save-progress")

\* C20: the events of a processTopicFile run come in stage order: the parse
\* events, then storage-save-progress with saved counting the inserts up to
\* total, then storage-complete carrying total, and only after it quiz-start
\* to quiz-complete
C20_StageOrder ==
  \A p \in Procs :
    loc[p].op = "topic" =>
      LET events == loc[p].events
          saves == SaveEvents(events)
      IN  /\ \A i, j \in 1..Len(events) :
                i < j => StageOf(events[i]) <= StageOf(events[j])
          /\ \A k \in 1..Len(saves) :
                saves[k].saved = k - 1 /\ saves[k].total = Len(loc[p].facts)
          /\ \A k \in 1..Len(events) :
                events[k].type = "storage-complete" =>
                  events[k].total = Len(loc[p].facts)

\* the events emitted while subscription h was in force
Window(h) ==
  {e \in 1..emitted :
     /\ subscriptions[h].from < e
     /\ subscriptions[h].open \/ e <= subscriptions[h].to}

Received(listener) == {delivered[listener][k] : k \in 1..Len(delivered[listener])}

\* C21: a listener registered with subscribeProgress receives every event
\* emitted between its subscription and its unsubscribe call, in emission
\* order, and none outside its subscriptions; a listener that throws neither
\* keeps an event from the other listeners nor makes emitProgress throw
C21_ListenerDelivery ==
  /\ \A h \in Handles :
       subscriptions[h].listener # 0 =>
         Window(h) \subseteq Received(subscriptions[h].listener)
  /\ \A listener \in Listeners :
       /\ \A j, k \in 1..Len(delivered[listener]) :
            j < k => delivered[listener][j] < delivered[listener][k]
       /\ Received(listener) \subseteq
            UNION {Window(h) : h \in {g \in Handles : subscriptions[g].listener = listener}}
  /\ ~emitThrew

IsChunkEvent(event) == event.type \in {"parse-chunk-start", "parse-chunk-complete"}
IsTerminalEvent(event) == event.type \in {"parse-complete", "parse-error"}

\* C22: within an extraction run no chunk event comes before parse-start or
\* after the terminal event, the chunk indices of the parse-chunk-start events
\* increase strictly, and every parse-chunk-start{i} is followed at once by
\* exactly one parse-chunk-complete{i} with the same chunkIndex and totalChunks
C22_ChunkProtocol ==
  \A p \in Procs :
    loc[p].op = "parse" =>
      LET events == loc[p].events
      IN  \A k \in 1..Len(events) :
            /\ IsChunkEvent(events[k]) =>
                 /\ events[1].type = "parse-start"
                 /\ \A j \in 1..(k - 1) : ~IsTerminalEvent(events[j])
            /\ events[k].type = "parse-chunk-start" =>
                 /\ \A j \in 1..(k - 1) :
                      events[j].type = "parse-chunk-start" =>
                        events[j].chunkIndex < events[k].chunkIndex
                 /\ k < Len(events) =>
                      /\ events[k + 1].type = "parse-chunk-complete"
                      /\ events[k + 1].chunkIndex = events[k].chunkIndex
                      /\ events[k + 1].totalChunks = events[k].totalChunks
                 /\ pc[p] = "done" => k < Len(events)
            /\ events[k].type = "parse-chunk-complete" =>
                 /\ k > 1
                 /\ events[k - 1].type = "parse-chunk-start"

\* the extraction request of the chunk p is at fails in this step
ChunkRequestFails(p) ==
  pc[p] = "completion" /\ loc'[p].failures = loc[p].failures + 1

\* the facts of the run after the sentences of the current chunk were offered
\* for acceptance as fallback facts
WithChunkSentences(l) ==
  CollectFactsFromContents(SplitTextIntoSentences(ChunkOf(l, l.idx)), "fallback",
                           l.allFacts, l.seen, MAX_FACTS).allFacts

\* C23: when the completion request for a chunk fails, the chunk's text is
\* sentence-segmented and the sentences are offered for acceptance as
\* source = fallback facts of the run
C23_FailedChunkFallsBack ==
  [][\A p \in Procs :
       (variant = "B" /\ ChunkRequestFails(p)) =>
         loc'[p].allFacts = WithChunkSentences(loc[p])]_vars

\* the first response of the chunk p is at arrives in this step
FirstResponseArrives(p) ==
  variant = "B" /\ pc[p] = "completion" /\ loc'[p].failures = loc[p].failures

\* p issues the recovery request for its chunk in this step
RecoveryIssued(p) ==
  /\ pc'[p] = "recovery"
  /\ loc'[p].requests = loc[p].requests + 1
  /\ loc'[p].idx = loc[p].idx
  /\ NewEvents(p) = <<>>

\* the recovery request of p settles in this step and ends the chunk: what
\* follows starts with the chunk's parse-chunk-complete
RecoveryEndsChunk(p) ==
  /\ pc'[p] # "recovery"
  /\ NewEvents(p) # <<>>
  /\ NewEvents(p)[1].type = "parse-chunk-complete"
  /\ NewEvents(p)[1].chunkIndex = loc[p].idx
  /\ loc'[p].requests <= loc[p].requests + 1
  /\ loc'[p].requests = loc[p].requests + 1 =>
       (pc'[p] = "completion" /\ loc'[p].idx > loc[p].idx)

\* C24 as stated: the recovery request is issued exactly when parsing the
\* chunk's first response yields zero valid items
C24_RecoveryOnZeroItems ==
  [][\A p \in Procs :
       FirstResponseArrives(p) =>
         (RecoveryIssued(p) <=> loc'[p].firstValid = 0)]_vars

\* C24 amended: the recovery request is issued exactly once when parsing the
\* chunk's first response yields zero valid items and that response is not
\* empty, and not otherwise; its settling ends the chunk, so a chunk causes
\* at most two completion requests
C24_RecoveryOnZeroItemsOfNonEmpty ==
  [][\A p \in Procs :
       /\ FirstResponseArrives(p) =>
            /\ RecoveryIssued(p) <=> (loc'[p].firstValid = 0 /\ ~loc'[p].firstBlank)
            /\ ~RecoveryIssued(p) => pc'[p] # "recovery"
       /\ (variant = "B" /\ pc[p] = "recovery" /\ loc'[p] # loc[p]) => RecoveryEndsChunk(p)]_vars

\* a three-chunk run without a failed request that took four requests: one
\* chunk took the recovery request as well
C24_Witness ==
  \E p \in Procs :
    /\ variant = "B" /\ loc[p].op = "parse" /\ pc[p] = "done"
    /\ loc[p].total = 3 /\ loc[p].failures = 0
    /\ loc[p].requests = 4

\* the recovery request of p settles in this step with zero valid items, after
\* a first response with zero valid items
RecoveryYieldsNothing(p) ==
  /\ variant = "B" /\ pc[p] = "recovery" /\ loc'[p] # loc[p]
  /\ loc[p].firstValid = 0
  /\ loc'[p].recoveredValid = 0

\* the facts the run of p accepts in this step
NewFacts(p) == SubSeq(loc'[p].allFacts, Len(loc[p].allFacts) + 1, Len(loc'[p].allFacts))

\* the sentences of the chunk p is at
ChunkSentences(p) == SplitTextIntoSentences(ChunkOf(loc[p], loc[p].idx))

DedupKey(content) == ToLowerCase(Slice(Trim(content), 0, MaxContentLen))

\* every sentence of the chunk is new to the run and there is room for all
AllSentencesFresh(p) ==
  LET sentences == ChunkSentences(p)
  IN  /\ \A i, j \in 1..Len(sentences) :
            i # j => DedupKey(sentences[i]) # DedupKey(sentences[j])
      /\ \A i \in 1..Len(sentences) : DedupKey(sentences[i]) \notin loc[p].seen
      /\ Len(loc[p].allFacts) + Len(sentences) <= MAX_FACTS

FallbackTagged(p) ==
  /\ \A k \in 1..Len(NewFacts(p)) : NewFacts(p)[k].source = "fallback"
  /\ NewEvents(p) # <<>>
  /\ NewEvents(p)[1].type = "parse-chunk-complete"
  /\ NewEvents(p)[1].factsGenerated = Len(NewFacts(p))

\* C25 as stated: when the first response and the recovery both yield zero
\* valid items, every fact accepted for the chunk is tagged fallback and the
\* number accepted equals the number of sentences of the chunk
C25_FallbackCount ==
  [][\A p \in Procs :
       RecoveryYieldsNothing(p) =>
         /\ FallbackTagged(p)
         /\ Len(NewFacts(p)) = Len(ChunkSentences(p))]_vars

\* C25 amended: when the first response and the recovery both yield zero
\* valid items, every fact accepted for the chunk is tagged fallback; the
\* number accepted is at most the number of sentences of
\* the chunk, and equals it when the sentences are pairwise distinct (trimmed,
\* cut to 200 characters, lower-cased), none was accepted earlier in the run
\* and the run stays within 120 facts
C25_FallbackCountOfFreshSentences ==
  [][\A p \in Procs :
       RecoveryYieldsNothing(p) =>
         /\ FallbackTagged(p)
         /\ Len(NewFacts(p)) <= Len(ChunkSentences(p))
         /\ AllSentencesFresh(p) => Len(NewFacts(p)) = Len(ChunkSentences(p))]_vars

\* a run on the text of two distinct sentences whose only chunk went to
\* sentence fallback after a recovery request that gave nothing
C25_Witness ==
  \E p \in Procs :
    /\ variant = "B" /\ loc[p].op = "parse" /\ pc[p] = "done"
    /\ loc[p].textId = 5 /\ loc[p].requests = 2 /\ loc[p].failures = 0
    /\ loc[p].firstValid = 0 /\ loc[p].recoveredValid = 0
    /\ Len(loc[p].result) = 2
    /\ \A k \in 1..2 : loc[p].result[k].source = "fallback"

\* the configured order: the primary model, then the fallback if it is set
\* and is another model
ConfiguredCount ==
  IF config.fallbackModelId = 0 \/ config.fallbackModelId = config.modelId
  THEN 1 ELSE 2
ConfiguredCandidate(k) ==
  IF k = 1 THEN config.modelId ELSE config.fallbackModelId

IsProvisioning(state) == state \in {"prep", "lminit"}

\* C26: initialize() tries the candidates in configured order, each once: it
\* starts with the primary, moves to the next candidate exactly when the
\* current one failed, and the session that becomes current is that of the
\* candidate whose preparation and init succeeded, which ends the walk
C26_CandidateOrder ==
  [][variant = "A" =>
       \A p \in Procs :
         /\ (~IsProvisioning(pc[p]) /\ IsProvisioning(pc'[p])) =>
              /\ pc[p] = "idle" /\ pc'[p] = "prep" /\ loc'[p].cand = 1
         /\ (IsProvisioning(pc[p]) /\ loc'[p] # loc[p]) =>
              /\ loc[p].cand \in 1..ConfiguredCount
              /\ \/ \* preparation succeeded: init of the same candidate follows
                    /\ pc[p] = "prep" /\ pc'[p] = "lminit"
                    /\ loc'[p].cand = loc[p].cand /\ lm' = lm
                 \/ \* the candidate failed and another one is left
                    /\ loc[p].cand < ConfiguredCount
                    /\ pc'[p] = "prep" /\ loc'[p].cand = loc[p].cand + 1
                    /\ lm' = lm /\ ~initialized'
                 \/ \* the last candidate failed
                    /\ loc[p].cand = ConfiguredCount
                    /\ loc'[p].initResult = "rejected"
                    /\ lm' = 0 /\ ~initialized'
                 \/ \* init succeeded: this candidate's session becomes current
                    /\ pc[p] = "lminit" /\ ~IsProvisioning(pc'[p])
                    /\ loc'[p].initResult = "resolved"
                    /\ lm' = ConfiguredCandidate(loc[p].cand) /\ initialized'
         /\ (lm = 0 /\ lm' # 0) =>
              \E q \in Procs : pc[q] = "lminit" /\ ~IsProvisioning(pc'[q])]_vars

\* the primary failed and the fallback's session became current
C26_Witness ==
  /\ variant = "A" /\ config.fallbackModelId = 2
  /\ lm = 2 /\ initialized
  /\ \E p \in Procs : loc[p].cand = 2 /\ loc[p].provisioned = 1
                       /\ loc[p].initResult = "resolved"

\* the rounded percentages of the model-download events p emitted for modelId
DownloadPercents(p, modelId) ==
  LET events == SelectSeq(loc[p].events,
                          LAMBDA e : e.type = "model-download" /\ e.modelId = modelId)
  IN  [k \in 1..Len(events) |-> RoundPercent(events[k].progress)]

\* C27: whatever progress callbacks a download delivers, the percentages of
\* the model-download events emitted for the model are numbers that never
\* decrease, and no percentage is emitted twice
C27_DownloadPercentages ==
  \A p \in Procs : \A modelId \in ModelIds :
    LET pcts == DownloadPercents(p, modelId)
    IN  \A j, k \in 1..Len(pcts) :
          j < k => /\ pcts[j].kind = "num" /\ pcts[k].kind = "num"
                   /\ pcts[j].v < pcts[k].v

IsQuizEvent(event) == event.type \in {"quiz-start", "quiz-progress", "quiz-complete"}

QuizEvents(events) == SelectSeq(events, IsQuizEvent)

\* C29: in a run that selected at least one fact the quiz events are one
\* quiz-start{total = number of selected facts}, then quiz-progress with
\* current = 1, 2, .., k and k <= total, then one quiz-complete whose total is
\* the number of accepted quiz items; a run that emitted quiz-start and has
\* returned has emitted quiz-complete
C29_QuizEvents ==
  \A p \in Procs :
    (loc[p].op = "topic" /\ loc[p].quizStage /\ Len(loc[p].selected) > 0) =>
      LET events == QuizEvents(loc[p].events)
          n == Len(events)
          k == CountEvents(events, "quiz-progress")
      IN  /\ n >= 1
          /\ events[1].type = "quiz-start"
          /\ events[1].total = Len(loc[p].selected)
          /\ k <= events[1].total
          /\ \A j \in 1..k :
               /\ events[j + 1].type = "quiz-progress"
               /\ events[j + 1].current = j
          /\ n <= k + 2
          /\ n = k + 2 =>
               /\ events[n].type = "quiz-complete"
               /\ events[n].total = Len(loc[p].quizzes)
          /\ pc[p] = "done" => n = k + 2

\* C30: runCompletion fails without invoking the capability when there is no
\* session, and otherwise invokes it exactly once; a failure the capability
\* reports or throws is a failure of the call
C30_RunCompletion ==
  \A p \in Procs :
    loc[p].op = "complete" =>
      /\ loc[p].requests = (IF loc[p].hadSession THEN 1 ELSE 0)
      /\ ~loc[p].hadSession => (pc[p] = "done" /\ loc[p].outcome = "rejected")
      /\ pc[p] = "done" =>
           /\ loc[p].capability \in {"threw", "reported"} => loc[p].outcome = "rejected"
           /\ loc[p].capability = "ok" => loc[p].outcome = "resolved"

\* C31: runCompletion fails, rather than returning a value, whenever the
\* capability's result reports failure or carries an empty, missing or
\* non-string response text
C31_InvalidPayloadFails ==
  \A p \in Procs :
    (/\ loc[p].op = "complete"
     /\ pc[p] = "done"
     /\ loc[p].capability \in {"reported", "ok"}
     /\ loc[p].capability = "reported" \/ loc[p].payload # "text")
    => loc[p].outcome = "rejected"

\* the facts and dedup set of a run after one chunk, from the run's own
\* accumulator, the chunk and the items parsed for it
OwnChunk(acc, chunk, parsedFacts) ==
  IF Len(parsedFacts) > 0
  THEN CollectFactsFromContents(parsedFacts, "cactus", acc.allFacts, acc.seen, MAX_FACTS)
  ELSE CollectFactsFromContents(SplitTextIntoSentences(chunk), "fallback",
                                acc.allFacts, acc.seen, MAX_FACTS)

\* what a model-mode run of variant B returns when it runs alone on the text
\* and receives the given completions, from chunk idx on
RECURSIVE AloneB(_, _, _, _)
AloneB(text, responses, idx, acc) ==
  IF idx > Len(Chunks(text, ChunkSize)) \/ Len(acc.allFacts) >= MAX_FACTS
     \/ responses = <<>>
  THEN acc.allFacts
  ELSE LET r == Head(responses)
           chunk == Slice(text, (idx - 1) * ChunkSize, idx * ChunkSize)
           parsed == IF r.ok THEN ParseFactsJson(r.raw) ELSE <<>>
       IN  IF ~r.ok THEN AloneB(text, Tail(responses), idx + 1, acc)
           ELSE IF Len(parsed) = 0 /\ r.raw.kind # "empty" /\ Len(responses) >= 2
           THEN LET r2 == responses[2]
                    recovered == IF r2.ok THEN ParseFactsJson(r2.raw) ELSE <<>>
                IN  AloneB(text, Tail(Tail(responses)), idx + 1,
                           OwnChunk(acc, chunk, recovered))
           ELSE AloneB(text, Tail(responses), idx + 1, OwnChunk(acc, chunk, parsed))

\* the same for variant A: the lines of every string response, in order
RECURSIVE AloneA(_)
AloneA(responses) ==
  IF responses = <<>> THEN <<>>
  ELSE LET r == Head(responses)
       IN  (IF r.ok /\ r.isString THEN ChunkFactsA(r.s) ELSE <<>>)
           \o AloneA(Tail(responses))

AloneResult(l) ==
  LET text == Trim(TextOf(l.textId))
  IN  IF l.mode = "fallback" THEN FallbackParseTextToFacts(text)
      ELSE IF l.mode = "none" THEN <<>>
      ELSE IF variant = "A" THEN AloneA(l.responses)
      ELSE AloneB(text, l.responses, 1, [allFacts |-> <<>>, seen |-> {}])

\* C32: whatever the interleaving of two concurrent parseTextToFacts runs,
\* each run that resolves returns exactly the facts it returns when it runs
\* alone on its text with the completions it received
C32_RunsAreIndependent ==
  \A p \in TopicProcs :
    (loc[p].op = "parse" /\ pc[p] = "done" /\ loc[p].outcome = "resolved")
    => loc[p].result = AloneResult(loc[p])

\* both runs resolved in model mode, each was sent the same items and
\* each accepted them up to its own cap
C32_Witness ==
  /\ variant = "B"
  /\ \A p \in TopicProcs :
       /\ loc[p].op = "parse" /\ pc[p] = "done" /\ loc[p].outcome = "resolved"
       /\ loc[p].mode = "model"
       /\ loc[p].textId = 8
       /\ Len(loc[p].result) = MAX_FACTS
  /\ loc[1].result = loc[2].result

\* C33: stripThinkingBlocks is idempotent: stripping its own result again
\* changes nothing
C33_StripIdempotent ==
  (loc[1].op = "strip" /\ pc[1] = "done") => loc[1].restripped = loc[1].stripped

\* C34: the hook's progress log holds at most 25 entries, and they are the
\* most recent log entries of the events it was given, in emission order
C34_RollingLog ==
  /\ Len(progressLog) <= LogCap
  /\ progressLog = LastN(logged, LogCap)

\* the entries of a sequence without those equal to the entry just before
RECURSIVE Squeeze(_)
Squeeze(seq) ==
  IF Len(seq) <= 1 THEN seq
  ELSE LET front == Squeeze(SubSeq(seq, 1, Len(seq) - 1))
       IN  IF seq[Len(seq)] = seq[Len(seq) - 1] THEN front
           ELSE Append(front, seq[Len(seq)])

\* C34: the hook's progress log holds at most 25 entries, and they are the
\* most recent log entries of the events it was given, in emission order,
\* an entry equal to the one just before it counting once
C34_RollingLogOfDistinct ==
  /\ Len(progressLog) <= LogCap
  /\ progressLog = LastN(Squeeze(logged), LogCap)

\* more than 25 distinct entries were logged, a repeated one among them
C34_Witness ==
  /\ Len(Squeeze(logged)) > LogCap
  /\ Len(logged) > Len(Squeeze(logged))
  /\ Len(progressLog) = LogCap

\* p left the already-processed check behind
PassedCheck(p) == loc[p].addedGuard \/ pc[p] \in PastGuard

\* C35: a processTopicFile call made after a run for the topic failed with at
\* least one fact persisted returns at the already-processed check: it
\* resolves there and persists nothing
C35_LaterCallsReturnAtCheck ==
  \A p \in Procs :
    loc[p].op = "topic" /\ loc[p].priorFailed
      => /\ ~PassedCheck(p) /\ DidNothing(p)
         /\ pc[p] = "done" => loc[p].outcome = "resolved"

\* C35: a processTopicFile call made after a run for the topic failed with at
\* least one fact persisted never gets past the already-processed check: it
\* returns there, or rejects when the lookup of the check fails, and it
\* persists nothing
C35_LaterCallsStopAtCheck ==
  \A p \in Procs :
    loc[p].op = "topic" /\ loc[p].priorFailed
      => /\ ~PassedCheck(p) /\ DidNothing(p)
         /\ CacheKey(loc[p].topic) \notin processingCache

\* a run failed on its second insert, and a call made after it returned at
\* the check, the rest of the run's facts not persisted
C35_Witness ==
  \E p, q \in Procs :
    /\ loc[q].op = "topic" /\ pc[q] = "done" /\ loc[q].outcome = "rejected"
    /\ loc[q].saved >= 1 /\ loc[q].saved < Len(loc[q].facts)
    /\ loc[p].op = "topic" /\ loc[p].topic = loc[q].topic /\ loc[p].priorFailed
    /\ pc[p] = "done" /\ loc[p].outcome = "resolved"
    /\ Len(db[loc[p].topic]) = loc[q].saved

\* the sum of factsGenerated over the parse-chunk-complete events
RECURSIVE ChunkTotal(_)
ChunkTotal(events) ==
  IF events = <<>> THEN 0
  ELSE LET e == events[Len(events)]
       IN  ChunkTotal(SubSeq(events, 1, Len(events) - 1))
           + (IF e.type = "parse-chunk-complete" THEN e.factsGenerated ELSE 0)

\* C36: in every model-mode extraction run that resolves, the factsGenerated
\* of parse-complete is the number of facts returned and the sum of the
\* factsGenerated of the run's parse-chunk-complete events
C36_FactsGeneratedAgree ==
  \A p \in Procs :
    (/\ loc[p].op = "parse" /\ pc[p] = "done"
     /\ loc[p].outcome = "resolved" /\ loc[p].mode = "model")
    => LET events == loc[p].events
           last == events[Len(events)]
       IN  /\ Len(events) > 0
           /\ last.type = "parse-complete"
           /\ last.factsGenerated = Len(loc[p].result)
           /\ last.factsGenerated = ChunkTotal(events)

\* a resolved model-mode run of three chunks: one request failed, the two
\* other chunks each produced facts
C36_Witness ==
  \E p \in Procs :
    /\ loc[p].op = "parse" /\ pc[p] = "done"
    /\ loc[p].outcome = "resolved" /\ loc[p].mode = "model"
    /\ loc[p].failures = 1
    /\ loc[p].total = 3
    /\ CountEvents(loc[p].events, "parse-chunk-complete") = 2
    /\ \A k \in 1..Len(loc[p].events) :
         loc[p].events[k].type = "parse-chunk-complete"
           => loc[p].events[k].factsGenerated >= 1
    /\ Len(loc[p].result) >= 2

RunningRuns == {r \in 1..Len(seedRuns) : seedRuns[r].status = "running"}

\* the whitespace-normalized contents of the non-quiz default facts stored
StoredDefaults(facts) ==
  {CollapseSpaces(Trim(facts[k].content)) :
     k \in {i \in 1..Len(facts) : facts[i].source = "default" /\ ~facts[i].is_quiz}}

\* ensureSeeded is called in this step by p
CallsEnsureSeeded(p) == pc[p] = "idle" /\ loc'[p].op = "seed"

\* C37: whatever the interleaving of ensureSeeded calls, at most one seeding
\* body runs at a time, a call that arrives during a run starts none and
\* awaits that run, and every fact inserted is a default fact whose
\* normalized content is not among the non-quiz default facts of its category
\* stored so far, those inserted earlier in the run included
C37_SeedingSingleFlight ==
  [][/\ Cardinality(RunningRuns') <= 1
     /\ \A p \in Procs :
          CallsEnsureSeeded(p) /\ RunningRuns # {}
            => /\ seedRuns' = seedRuns
               /\ pc'[p] = "seeding"
               /\ loc'[p].joined \in RunningRuns
     /\ \A c \in Topics :
          db'[c] # db[c]
            => /\ Len(db'[c]) = Len(db[c]) + 1
               /\ SubSeq(db'[c], 1, Len(db[c])) = db[c]
               /\ db'[c][Len(db'[c])].source = "default"
               /\ CollapseSpaces(Trim(db'[c][Len(db'[c])].content))
                    \notin StoredDefaults(db[c])]_vars

\* one run served three calls and resolved; of the three texts of the first
\* category it inserted one, the two others being stored in another spacing
C37_Witness ==
  /\ hasSeeded
  /\ Len(seedRuns) = 1
  /\ \A p \in Procs : loc[p].op = "seed" /\ loc[p].joined = 1 /\ pc[p] = "done"
  /\ Len(db["animals"]) = 4
  /\ db["animals"][4].content = <<"c">>
  /\ db["animals"][1].content = <<"a", " ", " ", "b", " ">>

\* C38: once the seeding body has failed, hasSeeded is false and pending
\* holds the rejected promise; no further body is started, and every call
\* made afterwards is given that promise and rejects
C38_FailedSeedingSticks ==
  /\ \A r \in 1..Len(seedRuns) :
       seedRuns[r].status = "rejected"
         => ~hasSeeded /\ pending = r /\ Len(seedRuns) = r
  /\ \A p \in Procs :
       loc[p].op = "seed" /\ loc[p].priorFailed
         => /\ loc[p].joined = pending
            /\ seedRuns[loc[p].joined].status = "rejected"
            /\ pc[p] \in {"seeding", "done"}
            /\ pc[p] = "done" => loc[p].outcome = "rejected"

\* the body failed on an insert after it had inserted a fact, and a call made
\* after the failure was rejected
C38_Witness ==
  /\ Len(seedRuns) = 1 /\ seedRuns[1].status = "rejected"
  /\ Len(db["animals"]) = 1
  /\ \E p \in Procs :
       /\ loc[p].op = "seed" /\ loc[p].priorFailed
       /\ pc[p] = "done" /\ loc[p].outcome = "rejected"

\* C39: at every suspension point of the service of AIService.ts, initialized
\* and initializing are not both true, initializing is true exactly while one
\* initialize() call is between setting it and its exit, and initialized
\* implies a session or the absence of the completion capability
C39_InitFlags ==
  variant = "A" =>
    /\ ~(initialized /\ initializing)
    /\ initializing => Cardinality(Provisioning) = 1
    /\ Provisioning = {} => ~initializing
    /\ initialized => (lm # 0 \/ ~cactus)

\* a session was created and destroyed, and a second initialize() call is
\* waiting for its candidate's init
C39_Witness ==
  /\ variant = "A" /\ cactus
  /\ initializing /\ ~initialized /\ lm = 0
  /\ \E p, q, r \in Procs :
       /\ loc[p].op = "init" /\ pc[p] = "done" /\ loc[p].outcome = "resolved"
       /\ loc[q].op = "destroy" /\ pc[q] = "done"
       /\ loc[r].op = "init" /\ pc[r] = "lminit"

====
